---- MODULE Spec2Model ----
(***************************************************************************)
(* Verification model of the coordinate-to-forecast pipeline of            *)
(* Motorcycle_Weather (src/server/app): the Firestore TTL store, grid      *)
(* resolution (getPoints), forecast fetch (getForecast), the supplementary *)
(* layer merge, and the batch orchestration (getWeather) with its consumer *)
(* filterWeatherData.                                                      *)
(*                                                                         *)
(* Conventions.  Python None / a missing dict key is the value Absent.     *)
(* A dict with insertion order is a sequence of entries.  A call that may  *)
(* raise returns a record with a field "raised".  Time is in seconds.      *)
(***************************************************************************)
EXTENDS Integers, Sequences, FiniteSets, TLC

\* ------------------------------------------------------------------ bounds
\* longest coordinate list handed to getWeather
MaxCoords == 2
\* number of twelve-hour clock steps the model lets pass
MaxTicks == 2
MaxPeriods == 2
\* longest period list handed to score_periods
MaxScored == 3
\* longest period list handed to scan_break
MaxScanned == 6
\* longest period list of a waypoint handed to scan_departure_window
MaxHours == 3
\* most fractional digits of a coordinate string handed to truncateCoordinate
MaxFraction == 6
\* how many times the clock advances between getActiveAlerts calls
MaxAlertTicks == 3

\* -------------------------------------------------------- program constants
\* truncateCoordinate(max_decimal_places=4)
MaxDecimalPlaces == 4
\* getPoints: max_age_hours = 24
DefaultGridTTLHours == 24
\* getForecast: timedelta(hours=3)
DefaultForecastTTLHours == 3
\* getActiveAlerts: timedelta(minutes=15)
AlertTTLMinutes == 15
\* scan_break: best_improvement > 25
BreakThreshold == 25
\* scan_break: scan_end = min(arrival_index + 5, len(periods))
ScanSpan == 5

Absent == -1

SecondsPerHour == 60 * 60
TickSeconds == 12 * SecondsPerHour

\* ------------------------------------------------------ truncateCoordinate
\* A coordinate string is a sequence of one-character strings.
DotPositions(coordinate) == {p \in 1..Len(coordinate) : coordinate[p] = "."}

\* whole, fraction = coordinate.split(".") raises ValueError unless the split
\* has exactly two parts
truncateCoordinateRaises(coordinate) == Cardinality(DotPositions(coordinate)) > 1

\* a variant that keeps one fractional digit more
truncateCoordinate_one_more(coordinate) ==
    IF DotPositions(coordinate) = {} THEN coordinate
    ELSE LET d == CHOOSE p \in DotPositions(coordinate) :
                      \A q \in DotPositions(coordinate) : p <= q
             whole == SubSeq(coordinate, 1, d - 1)
             fraction == SubSeq(coordinate, d + 1, Len(coordinate))
         IN  IF Len(fraction) > MaxDecimalPlaces
             THEN whole \o <<".">> \o SubSeq(fraction, 1, MaxDecimalPlaces + 1)
             ELSE coordinate

truncateCoordinate(coordinate) ==
    IF DotPositions(coordinate) = {} THEN coordinate
    ELSE LET d == CHOOSE p \in DotPositions(coordinate) :
                      \A q \in DotPositions(coordinate) : p <= q
             whole == SubSeq(coordinate, 1, d - 1)
             fraction == SubSeq(coordinate, d + 1, Len(coordinate))
         IN  IF Len(fraction) > MaxDecimalPlaces
             THEN whole \o <<".">> \o SubSeq(fraction, 1, MaxDecimalPlaces)
             ELSE coordinate

\* ------------------------------------------------------------ Point (value)
\* str() / int() on the grid indexes the weather service returns
DigitStr == <<"0", "1", "2", "3", "4", "5", "6", "7", "8", "9">>
str(n) == DigitStr[n + 1]
int(s) == CHOOSE n \in 0..9 : DigitStr[n + 1] = s

Point(grid_id, grid_x, grid_y) ==
    [grid_id |-> grid_id, grid_x |-> grid_x, grid_y |-> grid_y]

EmptyPoint == Point("", "", "")

\* a variant that takes every point, the empty one too, as resolved
is_not_empty_always(point) == TRUE

is_not_empty(point) ==
    point.grid_id # "" /\ point.grid_x # "" /\ point.grid_y # ""

\* ------------------------------------------------------------- timestamps
\* An ISO timestamp string: its local calendar hour (year, month, day, hour
\* folded into one hour number), minute, UTC offset in hours, and whether
\* datetime.fromisoformat accepts it.  Two strings are equal iff all agree.
TS(hour, minute, off) ==
    [hour |-> hour, minute |-> minute, off |-> off, ok |-> TRUE, empty |-> FALSE]

\* a non-empty string that fromisoformat rejects
BadTS == [hour |-> 0, minute |-> 0, off |-> 0, ok |-> FALSE, empty |-> FALSE]

\* the empty string "" (a period without startTime)
NoTS == [hour |-> 0, minute |-> 0, off |-> 0, ok |-> FALSE, empty |-> TRUE]

\* .astimezone(timezone.utc): absolute minutes
UtcMinutes(ts) == (ts.hour - ts.off) * 60 + ts.minute

\* ----------------------------------------------------- supplementary layers
\* A layer (data_map) is a dict in insertion order: a sequence of entries
\* [ts, val] with pairwise distinct ts and val never None.
LayerNames == {"windGust", "visibility", "apparentTemperature", "relativeHumidity"}

\* data_map.get(start_time)
DictGet(data_map, start_time) ==
    IF \E n \in 1..Len(data_map) : data_map[n].ts = start_time
    THEN data_map[CHOOSE n \in 1..Len(data_map) : data_map[n].ts = start_time].val
    ELSE Absent

\* entries of data_map, in order, whose timestamp parses and has hour key h
SameHourEntries(data_map, h) ==
    SelectSeq(data_map, LAMBDA e : e.ts.ok /\ e.ts.hour = h)

\* weather.py _match_timestamp_value: exact match, then linear same-hour scan
weather_match_timestamp_value(start_time, data_map) ==
    IF start_time.empty \/ Len(data_map) = 0 THEN Absent
    ELSE IF DictGet(data_map, start_time) # Absent THEN DictGet(data_map, start_time)
    ELSE IF ~start_time.ok THEN Absent
    ELSE LET same == SameHourEntries(data_map, start_time.hour)
         IN  IF Len(same) > 0 THEN same[1].val ELSE Absent

\* a variant whose hour index keeps the last value seen for an hour
build_hour_index_last_seen(data_map) ==
    LET hours == {data_map[n].ts.hour : n \in {m \in 1..Len(data_map) : data_map[m].ts.ok}}
    IN  [h \in hours |->
            SameHourEntries(data_map, h)[Len(SameHourEntries(data_map, h))].val]

\* gridpoint_data.py _build_hour_index: hour key -> first value seen
build_hour_index(data_map) ==
    LET hours == {data_map[n].ts.hour : n \in {m \in 1..Len(data_map) : data_map[m].ts.ok}}
    IN  [h \in hours |-> SameHourEntries(data_map, h)[1].val]

\* a variant that consults the hour index before the exact match
gridpoint_match_timestamp_value_index_first(start_time, data_map, hour_index) ==
    IF start_time.empty \/ Len(data_map) = 0 THEN Absent
    ELSE IF start_time.ok /\ start_time.hour \in DOMAIN hour_index
    THEN hour_index[start_time.hour]
    ELSE DictGet(data_map, start_time)

\* gridpoint_data.py _match_timestamp_value with the pre-built hour index
gridpoint_match_timestamp_value(start_time, data_map, hour_index) ==
    IF start_time.empty \/ Len(data_map) = 0 THEN Absent
    ELSE IF DictGet(data_map, start_time) # Absent THEN DictGet(data_map, start_time)
    ELSE IF ~start_time.ok THEN Absent
    ELSE IF start_time.hour \in DOMAIN hour_index THEN hour_index[start_time.hour]
    ELSE Absent

\* a variant that assigns the match even when there is none
SetIfMatched_always(old, value) == value

\* period[field] = value if value is not None
SetIfMatched(old, value) == IF value # Absent THEN value ELSE old

\* the loop body of the two merges, for one period, given its four matches
MergedPeriod(period, gust, vis, apparent, hum) ==
    [period EXCEPT !.windGust = SetIfMatched(@, gust),
                   !.visibility = SetIfMatched(@, vis),
                   !.apparent_temperature = SetIfMatched(@, apparent),
                   !.humidity = SetIfMatched(@, hum)]

\* weather.py _merge_gridpoint_data on the period list of a forecast document
weather_merge_gridpoint_data(periods, gridpoint_data) ==
    [n \in 1..Len(periods) |->
        MergedPeriod(periods[n],
            weather_match_timestamp_value(periods[n].startTime, gridpoint_data.windGust),
            weather_match_timestamp_value(periods[n].startTime, gridpoint_data.visibility),
            weather_match_timestamp_value(periods[n].startTime, gridpoint_data.apparentTemperature),
            weather_match_timestamp_value(periods[n].startTime, gridpoint_data.relativeHumidity))]

\* gridpoint_data.py merge_gridpoint_data on the period list
merge_gridpoint_data(periods, gridpoint_data) ==
    LET wind_gust_index == build_hour_index(gridpoint_data.windGust)
        visibility_index == build_hour_index(gridpoint_data.visibility)
        apparent_temp_index == build_hour_index(gridpoint_data.apparentTemperature)
        humidity_index == build_hour_index(gridpoint_data.relativeHumidity)
    IN  [n \in 1..Len(periods) |->
            MergedPeriod(periods[n],
                gridpoint_match_timestamp_value(periods[n].startTime,
                    gridpoint_data.windGust, wind_gust_index),
                gridpoint_match_timestamp_value(periods[n].startTime,
                    gridpoint_data.visibility, visibility_index),
                gridpoint_match_timestamp_value(periods[n].startTime,
                    gridpoint_data.apparentTemperature, apparent_temp_index),
                gridpoint_match_timestamp_value(periods[n].startTime,
                    gridpoint_data.relativeHumidity, humidity_index))]

\* getGridpointData's empty_result
empty_result ==
    [windGust |-> <<>>, visibility |-> <<>>, apparentTemperature |-> <<>>,
     relativeHumidity |-> <<>>]

\* ---------------------------------------------------------------- Forecast
\* A period dict of an hourly forecast document.
PeriodJson(startTime, endTime, temperature) ==
    [startTime |-> startTime, endTime |-> endTime, temperature |-> temperature,
     windGust |-> Absent, visibility |-> Absent, apparent_temperature |-> Absent,
     humidity |-> Absent, ride_score |-> Absent]

\* A forecast document that passed getForecast's structure check: it has
\* properties.periods; properties.elevation.value is <<v>> or <<>> (missing).
ForecastJson(elevation, periods) == [elevation |-> elevation, periods |-> periods]

\* Forecast({}): elevation "" (written <<>>) and no periods
EmptyForecast == [elevation |-> <<>>, periods |-> <<>>]

\* coordinate.forecasts = None
NoneForecast == [none |-> TRUE]

\* Forecast.__init__ on a non-empty document: properties["elevation"]["value"]
\* raises KeyError when the document has no elevation
ForecastInitRaises(forecast_json) == forecast_json.elevation = <<>>

ForecastInit(forecast_json) ==
    [elevation |-> forecast_json.elevation, periods |-> forecast_json.periods]

\* Forecast.filterPeriods(eta): the first period whose closed window holds
\* eta; Period({}) (written <<>>) when none does.  fromisoformat raises on a
\* period whose startTime or endTime does not parse.
filterPeriodsRaises(forecast, eta) ==
    \E n \in 1..Len(forecast.periods) :
        /\ ~(forecast.periods[n].startTime.ok /\ forecast.periods[n].endTime.ok)
        /\ \A m \in 1..(n - 1) :
              ~(UtcMinutes(forecast.periods[m].startTime) <= eta
                /\ eta <= UtcMinutes(forecast.periods[m].endTime))

filterPeriods(forecast, eta) ==
    LET hits == {n \in 1..Len(forecast.periods) :
                    /\ UtcMinutes(forecast.periods[n].startTime) <= eta
                    /\ eta <= UtcMinutes(forecast.periods[n].endTime)}
    IN  IF hits = {} THEN <<>>
        ELSE <<forecast.periods[CHOOSE n \in hits : \A m \in hits : n <= m]>>

\* the truth value Python gives an elevation: "" (written <<>>) and 0 are false
ElevationTruthy(elevation) == elevation # <<>> /\ elevation # <<0>>

\* Forecast.is_empty: `return self.elevation and self.periods`, taken as a
\* truth value by its caller
is_empty(forecast) == ElevationTruthy(forecast.elevation) /\ forecast.periods # <<>>

\* ------------------------------------------------------- FirestoreService
\* A collection is a function from the ids of its documents to documents.
\* _create_coordinate_doc_id: f"{latitude}_{longitude}"
create_coordinate_doc_id(latitude, longitude) == <<latitude, longitude>>

\* _create_gridpoint_doc_id: f"{grid_id}_{grid_x}_{grid_y}"
create_gridpoint_doc_id(grid_id, grid_x, grid_y) == <<grid_id, grid_x, grid_y>>

\* a variant that keeps a document without expiresAt forever
is_expired_only_when_dated(expires_at, t) ==
    IF expires_at = Absent THEN FALSE ELSE t > expires_at

\* _is_expired at clock t; a document without expiresAt is expired
is_expired(expires_at, t) ==
    IF expires_at = Absent THEN TRUE ELSE t > expires_at

\* doc_ref.delete()
DeleteDoc(collection, doc_id) ==
    [d \in DOMAIN collection \ {doc_id} |-> collection[d]]

\* doc_ref.set(data)
SetDoc(collection, doc_id, data) ==
    [d \in DOMAIN collection \cup {doc_id} |->
        IF d = doc_id THEN data ELSE collection[d]]

json_dumps(value) == [json |-> value]
json_loads(text) == text.json

\* Each get returns [data, collection]: data is <<>> for None, else <<value>>;
\* collection is the collection after the read (an expired document is deleted).
get_coordinate_to_gridpoints(collection, latitude, longitude, t) ==
    LET doc_id == create_coordinate_doc_id(latitude, longitude)
    IN  IF doc_id \in DOMAIN collection
        THEN IF ~is_expired(collection[doc_id].expiresAt, t)
             THEN [data |-> <<collection[doc_id]>>, collection |-> collection]
             ELSE [data |-> <<>>, collection |-> DeleteDoc(collection, doc_id)]
        ELSE [data |-> <<>>, collection |-> collection]

set_coordinate_to_gridpoints(collection, latitude, longitude, grid_id, grid_x, grid_y, expires_at) ==
    SetDoc(collection, create_coordinate_doc_id(latitude, longitude),
           [gridId |-> grid_id, gridX |-> int(grid_x), gridY |-> int(grid_y),
            expiresAt |-> expires_at])

get_gridpoints_to_forecast_url(collection, grid_id, grid_x, grid_y, t) ==
    LET doc_id == create_gridpoint_doc_id(grid_id, grid_x, grid_y)
    IN  IF doc_id \in DOMAIN collection
        THEN IF ~is_expired(collection[doc_id].expiresAt, t)
             THEN [data |-> <<collection[doc_id].forecastUrl>>, collection |-> collection]
             ELSE [data |-> <<>>, collection |-> DeleteDoc(collection, doc_id)]
        ELSE [data |-> <<>>, collection |-> collection]

set_gridpoints_to_forecast_url(collection, grid_id, grid_x, grid_y, forecast_url, expires_at) ==
    SetDoc(collection, create_gridpoint_doc_id(grid_id, grid_x, grid_y),
           [gridId |-> grid_id, gridX |-> int(grid_x), gridY |-> int(grid_y),
            forecastUrl |-> forecast_url, expiresAt |-> expires_at])

get_gridpoints_to_forecast(collection, grid_id, grid_x, grid_y, t) ==
    LET doc_id == create_gridpoint_doc_id(grid_id, grid_x, grid_y)
    IN  IF doc_id \in DOMAIN collection
        THEN IF ~is_expired(collection[doc_id].expiresAt, t)
             THEN [data |-> <<json_loads(collection[doc_id].forecast)>>,
                   collection |-> collection]
             ELSE [data |-> <<>>, collection |-> DeleteDoc(collection, doc_id)]
        ELSE [data |-> <<>>, collection |-> collection]

set_gridpoints_to_forecast(collection, grid_id, grid_x, grid_y, forecast, expires_at) ==
    SetDoc(collection, create_gridpoint_doc_id(grid_id, grid_x, grid_y),
           [gridId |-> grid_id, gridX |-> int(grid_x), gridY |-> int(grid_y),
            forecast |-> json_dumps(forecast), expiresAt |-> expires_at])

get_alerts(collection, latitude, longitude, t) ==
    LET doc_id == create_coordinate_doc_id(latitude, longitude)
    IN  IF doc_id \in DOMAIN collection
        THEN IF ~is_expired(collection[doc_id].expiresAt, t)
             THEN [data |-> <<json_loads(collection[doc_id].alerts)>>,
                   collection |-> collection]
             ELSE [data |-> <<>>, collection |-> DeleteDoc(collection, doc_id)]
        ELSE [data |-> <<>>, collection |-> collection]

set_alerts(collection, latitude, longitude, alert_list, expires_at) ==
    SetDoc(collection, create_coordinate_doc_id(latitude, longitude),
           [alerts |-> json_dumps(alert_list), expiresAt |-> expires_at])

\* ------------------------------------------------------------ Cache-Control
\* The Cache-Control header: whether it contains "max-age=", whether int()
\* accepts what follows, and the number of seconds.
NoMaxAge == [has |-> FALSE, parses |-> FALSE, seconds |-> 0]
BadMaxAge == [has |-> TRUE, parses |-> FALSE, seconds |-> 0]
MaxAge(seconds) == [has |-> TRUE, parses |-> TRUE, seconds |-> seconds]

\* a variant that takes no notice of max-age
PointsExpiresAt_default_only(t, cache_control) ==
    t + DefaultGridTTLHours * SecondsPerHour

\* getPoints: max_age_hours = int(max_age_seconds) / 3600, default 24;
\* expires_at = now + timedelta(hours=max_age_hours)
PointsExpiresAt(t, cache_control) ==
    IF cache_control.has /\ cache_control.parses
    THEN t + cache_control.seconds
    ELSE t + DefaultGridTTLHours * SecondsPerHour

\* getForecast: time + timedelta(seconds=max_age_seconds), default 3 hours
ForecastExpiresAt(t, cache_control) ==
    IF cache_control.has /\ cache_control.parses
    THEN t + cache_control.seconds
    ELSE t + DefaultForecastTTLHours * SecondsPerHour

\* ---------------------------------------------------------------- getPoints
RequiredFields == {"gridId", "gridX", "gridY", "forecastHourly"}

\* The answer of the point-lookup request: kind is "exception" (network error,
\* timeout, undecodable body), "not_ok", "no_properties" or "ok"; fields are
\* the keys present in properties.
PointsResponse(kind, fields, gridId, gridX, gridY, forecastHourly, cache_control) ==
    [kind |-> kind, fields |-> fields, gridId |-> gridId, gridX |-> gridX,
     gridY |-> gridY, forecastHourly |-> forecastHourly,
     cache_control |-> cache_control]

\* What getPoints hands back: the point or that the call raised, the two
\* collections after the call and the number of upstream requests made.
PointsOutcome(raised, point, coordinates_after, gridpoints_after, requests) ==
    [raised |-> raised, point |-> point, coordinates |-> coordinates_after,
     gridpoints |-> gridpoints_after, requests |-> requests]

\* a variant that stores the coordinate's entry before it checks the fields
getPointsFetch_store_first(truncated_latitude, truncated_longitude, t, coordinates_coll, gridpoints_coll, env) ==
    LET response == env.response
        failed == PointsOutcome(FALSE, EmptyPoint, coordinates_coll, gridpoints_coll, 1)
        expires_at == PointsExpiresAt(t, response.cache_control)
        grid_x == str(response.gridX)
        grid_y == str(response.gridY)
        point == Point(response.gridId, grid_x, grid_y)
        stored == set_coordinate_to_gridpoints(coordinates_coll, truncated_latitude,
                      truncated_longitude, response.gridId, grid_x, grid_y, expires_at)
    IN  IF response.kind # "ok" THEN failed
        ELSE IF env.set_coordinate_fails THEN failed
        ELSE IF response.fields # RequiredFields \/ env.set_url_fails
             THEN PointsOutcome(FALSE, EmptyPoint, stored, gridpoints_coll, 1)
        ELSE PointsOutcome(FALSE, point, stored,
                 set_gridpoints_to_forecast_url(gridpoints_coll, response.gridId,
                     grid_x, grid_y, response.forecastHourly, expires_at), 1)

\* getPoints after a cache miss: the request, validation and the two writes.
\* env.set_coordinate_fails / env.set_url_fails: the Firestore write raises.
getPointsFetch(truncated_latitude, truncated_longitude, t, coordinates_coll, gridpoints_coll, env) ==
    LET response == env.response
        failed == PointsOutcome(FALSE, EmptyPoint, coordinates_coll, gridpoints_coll, 1)
        expires_at == PointsExpiresAt(t, response.cache_control)
        grid_x == str(response.gridX)
        grid_y == str(response.gridY)
        point == Point(response.gridId, grid_x, grid_y)
        stored == set_coordinate_to_gridpoints(coordinates_coll, truncated_latitude,
                      truncated_longitude, response.gridId, grid_x, grid_y, expires_at)
    IN  IF response.kind # "ok" THEN failed
        ELSE IF response.fields # RequiredFields THEN failed
        ELSE IF env.set_coordinate_fails THEN failed
        ELSE IF env.set_url_fails
             THEN PointsOutcome(FALSE, EmptyPoint, stored, gridpoints_coll, 1)
        ELSE PointsOutcome(FALSE, point, stored,
                 set_gridpoints_to_forecast_url(gridpoints_coll, response.gridId,
                     grid_x, grid_y, response.forecastHourly, expires_at), 1)

\* getPoints; env.get_coordinate_fails: the cache read raises (it is outside
\* the try block, so the exception leaves getPoints).
getPoints(truncated_latitude, truncated_longitude, t, coordinates_coll, gridpoints_coll, env) ==
    LET cached == get_coordinate_to_gridpoints(coordinates_coll, truncated_latitude,
                      truncated_longitude, t)
    IN  IF env.get_coordinate_fails
        THEN PointsOutcome(TRUE, EmptyPoint, coordinates_coll, gridpoints_coll, 0)
        ELSE IF cached.data # <<>>
        THEN PointsOutcome(FALSE,
                 Point(cached.data[1].gridId, str(cached.data[1].gridX),
                       str(cached.data[1].gridY)),
                 cached.collection, gridpoints_coll, 0)
        ELSE getPointsFetch(truncated_latitude, truncated_longitude, t,
                 cached.collection, gridpoints_coll, env)

\* -------------------------------------------------------------- getForecast
\* The answer of the hourly-forecast request: kind is "exception", "not_ok",
\* "malformed" (no properties or no periods), "bad_periods" (periods is not
\* a list, so the merge raises) or "ok" with a document.
ForecastResponse(kind, forecast_data, cache_control) ==
    [kind |-> kind, forecast_data |-> forecast_data, cache_control |-> cache_control]

\* What getForecast hands back.  forecast is the returned Forecast; wrote says
\* whether set_gridpoints_to_forecast stored a document and written is that
\* document; forecast_requests / gridpoint_requests count upstream requests;
\* failures names the steps that failed during the call.
ForecastOutcome(raised, forecast, forecasts_after, gridpoints_after, hit, wrote, written, forecast_requests, gridpoint_requests, failures) ==
    [raised |-> raised, forecast |-> forecast, forecasts |-> forecasts_after,
     gridpoints |-> gridpoints_after, hit |-> hit, wrote |-> wrote,
     written |-> written, forecast_requests |-> forecast_requests,
     gridpoint_requests |-> gridpoint_requests, failures |-> failures]

\* getForecastUrl: the stored URL, "" (written <<>>) on a miss or a failure
getForecastUrl(gridpoint, t, gridpoints_coll, env) ==
    IF env.get_url_fails
    THEN [data |-> <<>>, collection |-> gridpoints_coll]
    ELSE get_gridpoints_to_forecast_url(gridpoints_coll, gridpoint.grid_id,
             gridpoint.grid_x, gridpoint.grid_y, t)

\* getGridpointData: the four layers, empty_result on any failure
getGridpointData(env) ==
    IF env.gridpoint_response.kind = "ok" THEN env.gridpoint_response.layers
    ELSE empty_result

\* getForecast from the URL lookup on (the forecast cache gave nothing)
getForecastFetch(gridpoint, t, forecasts_coll, gridpoints_coll, env, read_failures) ==
    LET url == getForecastUrl(gridpoint, t, gridpoints_coll, env)
        response == env.response
        url_failures == IF env.get_url_fails THEN {"url_lookup"} ELSE {}
        failed(n) == ForecastOutcome(FALSE, EmptyForecast, forecasts_coll,
                         url.collection, FALSE, FALSE, <<>>, n, 0,
                         read_failures \cup url_failures
                             \cup (IF n = 1 THEN {"forecast_request"} ELSE {}))
        forecast_data == ForecastJson(response.forecast_data.elevation,
                             weather_merge_gridpoint_data(response.forecast_data.periods,
                                 getGridpointData(env)))
        expires_at == ForecastExpiresAt(t, response.cache_control)
        stored == IF env.set_forecast_fails THEN forecasts_coll
                  ELSE set_gridpoints_to_forecast(forecasts_coll, gridpoint.grid_id,
                           gridpoint.grid_x, gridpoint.grid_y, forecast_data, expires_at)
    IN  IF url.data = <<>> THEN failed(0)
        ELSE IF response.kind = "bad_periods"
        THEN ForecastOutcome(FALSE, EmptyForecast, forecasts_coll, url.collection,
                 FALSE, FALSE, <<>>, 1, 1,
                 read_failures
                     \cup (IF env.gridpoint_response.kind # "ok"
                           THEN {"layer_request"} ELSE {})
                     \cup {"merge"})
        ELSE IF response.kind # "ok" THEN failed(1)
        ELSE ForecastOutcome(FALSE,
                 IF ForecastInitRaises(forecast_data) THEN EmptyForecast
                 ELSE ForecastInit(forecast_data),
                 stored, url.collection, FALSE, ~env.set_forecast_fails,
                 IF env.set_forecast_fails THEN <<>> ELSE <<forecast_data>>, 1, 1,
                 read_failures
                     \cup (IF env.gridpoint_response.kind # "ok"
                           THEN {"layer_request"} ELSE {})
                     \cup (IF env.set_forecast_fails THEN {"cache_write"} ELSE {})
                     \cup (IF ForecastInitRaises(forecast_data)
                           THEN {"construction"} ELSE {}))

\* a variant whose cache read is not inside a try
getForecast_unguarded_read(gridpoint, t, forecasts_coll, gridpoints_coll, env) ==
    LET cached == get_gridpoints_to_forecast(forecasts_coll, gridpoint.grid_id,
                      gridpoint.grid_x, gridpoint.grid_y, t)
    IN  IF env.get_forecast_fails
        THEN ForecastOutcome(TRUE, EmptyForecast, forecasts_coll, gridpoints_coll,
                 FALSE, FALSE, <<>>, 0, 0, {"cache_read"})
        ELSE IF cached.data # <<>> /\ ~ForecastInitRaises(cached.data[1])
        THEN ForecastOutcome(FALSE, ForecastInit(cached.data[1]), cached.collection,
                 gridpoints_coll, TRUE, FALSE, <<>>, 0, 0, {})
        ELSE getForecastFetch(gridpoint, t, cached.collection, gridpoints_coll, env,
                 IF cached.data # <<>> THEN {"cached_construction"} ELSE {})

\* getForecast; env.get_forecast_fails: the cache read raises (caught)
getForecast(gridpoint, t, forecasts_coll, gridpoints_coll, env) ==
    LET cached == get_gridpoints_to_forecast(forecasts_coll, gridpoint.grid_id,
                      gridpoint.grid_x, gridpoint.grid_y, t)
    IN  IF env.get_forecast_fails
        THEN getForecastFetch(gridpoint, t, forecasts_coll, gridpoints_coll, env,
                 {"cache_read"})
        ELSE IF cached.data # <<>> /\ ~ForecastInitRaises(cached.data[1])
        THEN ForecastOutcome(FALSE, ForecastInit(cached.data[1]), cached.collection,
                 gridpoints_coll, TRUE, FALSE, <<>>, 0, 0, {})
        ELSE getForecastFetch(gridpoint, t, cached.collection, gridpoints_coll, env,
                 IF cached.data # <<>> THEN {"cached_construction"} ELSE {})

\* -------------------------------------------------------- filterWeatherData
\* A Coordinates object.  eta is Absent or a UTC time in minutes.
Coordinates(latitude, longitude, eta, address) ==
    [latitude |-> latitude, longitude |-> longitude, eta |-> eta,
     address |-> address, point |-> EmptyPoint, forecasts |-> EmptyForecast]

\* the coordinate takes the filterPeriods branch
UsesEta(coordinate, ignoreEta) == ~ignoreEta /\ coordinate.eta # Absent

\* coordinate.forecasts.filterPeriods raises: AttributeError on None, or
\* ValueError from fromisoformat
FilterEntryRaises(coordinate, ignoreEta) ==
    /\ UsesEta(coordinate, ignoreEta)
    /\ \/ coordinate.forecasts = NoneForecast
       \/ filterPeriodsRaises(coordinate.forecasts, coordinate.eta)

\* what the loop appends for one coordinate: the whole forecast, or the
\* Period filterPeriods returned (a Period object is always truthy)
FilterEntry(coordinate, ignoreEta) ==
    [key |-> <<coordinate.latitude, coordinate.longitude>>,
     value |-> IF UsesEta(coordinate, ignoreEta)
               THEN filterPeriods(coordinate.forecasts, coordinate.eta)
               ELSE coordinate.forecasts]

\* `if filtered_period:` on a Period object: Period defines neither __bool__
\* nor __len__, so every Period is true, Period({}) (written <<>>) too
PeriodTruthy(period) == TRUE

\* what one iteration of the loop appends to the map: nothing (<<>>) or one
\* entry
FilterAppended(coordinate, ignoreEta) ==
    IF UsesEta(coordinate, ignoreEta)
          /\ ~PeriodTruthy(filterPeriods(coordinate.forecasts, coordinate.eta))
    THEN <<>>
    ELSE <<FilterEntry(coordinate, ignoreEta)>>

\* filterWeatherData: for each coordinate, in order, what its iteration
\* appended; or that the call raised
filterWeatherData(coordinate_list, ignoreEta) ==
    IF \E n \in 1..Len(coordinate_list) : FilterEntryRaises(coordinate_list[n], ignoreEta)
    THEN [raised |-> TRUE, entries |-> <<>>]
    ELSE [raised |-> FALSE,
          entries |-> [n \in 1..Len(coordinate_list) |->
                          FilterAppended(coordinate_list[n], ignoreEta)]]

\* ------------------------------------------------------- the outside world
\* Coordinate strings a caller sends: "1.2345" and "1.23456" truncate to the
\* same key; "2.5" is another key, in another grid cell.
Lat12345 == <<"1", ".", "2", "3", "4", "5">>
Lat123456 == <<"1", ".", "2", "3", "4", "5", "6">>
Lat25 == <<"2", ".", "5">>
Lon95 == <<"-", "9", ".", "5">>

EtaInPeriod == 10 * 60 + 30
NoAddress == <<>>

InputCoords ==
    {Coordinates(Lat12345, Lon95, Absent, NoAddress),
     Coordinates(Lat123456, Lon95, EtaInPeriod, <<"Main St">>),
     Coordinates(Lat25, Lon95, EtaInPeriod, NoAddress)}

\* the lists of 1..MaxCoords coordinates
CoordLists == UNION {[1..n -> InputCoords] : n \in 1..MaxCoords}

\* the grid cell the weather service assigns to a truncated coordinate
GridOf(truncated_latitude) ==
    IF truncated_latitude = Lat25
    THEN [gridId |-> "MTR", gridX |-> 3, gridY |-> 4]
    ELSE [gridId |-> "LOX", gridX |-> 1, gridY |-> 2]

PointsOk(truncated_latitude, fields, gridId, cache_control) ==
    PointsResponse("ok", fields, gridId, GridOf(truncated_latitude).gridX,
        GridOf(truncated_latitude).gridY,
        <<"forecastHourly", GridOf(truncated_latitude).gridId>>, cache_control)

\* every answer the point lookup can give for a coordinate, the last with
\* every field present and an empty gridId
PointsResponses(truncated_latitude) ==
    {PointsResponse(kind, {}, "", 0, 0, <<>>, NoMaxAge) :
        kind \in {"exception", "not_ok", "no_properties"}}
    \cup {PointsOk(truncated_latitude, RequiredFields \ {f}, GridOf(truncated_latitude).gridId, NoMaxAge) :
            f \in RequiredFields}
    \cup {PointsOk(truncated_latitude, RequiredFields, GridOf(truncated_latitude).gridId, cc) :
            cc \in {NoMaxAge, BadMaxAge, MaxAge(TickSeconds)}}
    \cup {PointsOk(truncated_latitude, RequiredFields, "", NoMaxAge)}

PointsEnv(get_coordinate_fails, response, set_coordinate_fails, set_url_fails) ==
    [get_coordinate_fails |-> get_coordinate_fails, response |-> response,
     set_coordinate_fails |-> set_coordinate_fails, set_url_fails |-> set_url_fails]

\* what can happen around one getPoints call: the cache read raises; or it
\* works and the lookup gives any answer, with either write raising when
\* the answer is complete (no write is attempted otherwise)
PointsEnvs(truncated_latitude) ==
    {PointsEnv(TRUE, r, FALSE, FALSE) : r \in PointsResponses(truncated_latitude)}
    \cup {PointsEnv(FALSE, r, FALSE, FALSE) : r \in PointsResponses(truncated_latitude)}
    \cup {PointsEnv(FALSE, r, f[1], f[2]) :
            r \in {q \in PointsResponses(truncated_latitude) :
                      q.kind = "ok" /\ q.fields = RequiredFields},
            f \in {<<TRUE, FALSE>>, <<FALSE, TRUE>>, <<TRUE, TRUE>>}}

\* hourly periods of the upstream forecast: the second has no temperature
Period10 == PeriodJson(TS(10, 0, 0), TS(11, 0, 0), 70)
Period11 == PeriodJson(TS(11, 0, 0), TS(12, 0, 0), Absent)

ForecastDocs ==
    {ForecastJson(<<120>>, <<Period10, Period11>>),
     ForecastJson(<<>>, <<Period10>>)}

ForecastResponses ==
    {ForecastResponse(kind, ForecastJson(<<>>, <<>>), NoMaxAge) :
        kind \in {"exception", "not_ok", "malformed", "bad_periods"}}
    \cup {ForecastResponse("ok", doc, cc) :
            doc \in ForecastDocs, cc \in {NoMaxAge, BadMaxAge, MaxAge(TickSeconds)}}

\* supplementary layers: an exact match and a same-hour match for 10:00,
\* nothing for 11:00 in windGust
SomeLayers ==
    [windGust |-> <<[ts |-> TS(10, 0, 0), val |-> 15]>>,
     visibility |-> <<[ts |-> TS(10, 30, 0), val |-> 9], [ts |-> TS(10, 45, 0), val |-> 8]>>,
     apparentTemperature |-> <<>>,
     relativeHumidity |-> <<[ts |-> TS(11, 0, 0), val |-> 40]>>]

GridpointResponses ==
    {[kind |-> "fail", layers |-> empty_result],
     [kind |-> "ok", layers |-> empty_result],
     [kind |-> "ok", layers |-> SomeLayers]}

ForecastEnv(get_forecast_fails, get_url_fails, response, gridpoint_response, set_forecast_fails) ==
    [get_forecast_fails |-> get_forecast_fails, get_url_fails |-> get_url_fails,
     response |-> response, gridpoint_response |-> gridpoint_response,
     set_forecast_fails |-> set_forecast_fails]

GridpointFail == [kind |-> "fail", layers |-> empty_result]

\* what can happen around one getForecast call: either cache read raising,
\* any answer to the forecast request and, when that answer is usable, any
\* answer to the gridpoint request and the write raising or not
ForecastEnvs ==
    {ForecastEnv(g, u, r, GridpointFail, FALSE) :
        g \in BOOLEAN, u \in BOOLEAN,
        r \in {q \in ForecastResponses : q.kind # "ok"}}
    \cup {ForecastEnv(g, FALSE, r, gp, w) :
            g \in BOOLEAN, r \in {q \in ForecastResponses : q.kind = "ok"},
            gp \in GridpointResponses, w \in BOOLEAN}

\* the part of ForecastEnvs a batch is run against: the forecast request
\* fails or answers without a max-age, the gridpoint request fails or
\* brings layers, either cache read or the write may raise
BatchForecastEnvs ==
    {e \in ForecastEnvs :
        /\ e.response.cache_control = NoMaxAge
        /\ e.response.kind \in {"exception", "ok"}
        /\ e.gridpoint_response \in {GridpointFail, [kind |-> "ok", layers |-> SomeLayers]}}

\* ================================================================== state
VARIABLES
    now,              \* the clock, in seconds
    model,            \* ride_quality._model: TRUE when a model is loaded
    coordinates,      \* Firestore collection "coordinates"
    gridpoints,       \* Firestore collection "gridpoints"
    forecasts,        \* Firestore collection "forecasts"
    alerts,           \* Firestore collection "alerts"
    pc,               \* where the request in progress stands
    coords,           \* the coordinate list of the request in progress
    i,                \* loop index of the loop getWeather is in
    distinct_points,  \* getWeather's dict, in insertion order
    filtered,         \* what filterWeatherData returned for the request
    fetched,          \* history: the points getForecast was called with
    returned,         \* history: the forecast each of those calls returned
    resolved,         \* history: the coordinates whose getPoints call returned
    lookups,          \* history: the point lookups getWeather's getPoints calls sent
    lastPoints,       \* history: the latest getPoints call
    first_result,     \* history: per key, what the latest miss returned
    lastForecast,     \* history: the latest getForecast call
    lastGet,          \* history: the latest get on a cache collection
    periods,          \* the period list of a forecast document being merged
    lastMerge,        \* history: the latest merge_gridpoint_data call
    args,             \* the arguments a function is about to be called with
    lastCall,         \* history: the latest call of that function
    lastAlerts,       \* history: the latest getActiveAlerts call
    searches,         \* Firestore collection "searches"
    lastSearch,       \* history: the latest saved-search request
    inflight          \* the concurrent calls in progress: where each stands, what it holds

vars ==
    <<now, model, coordinates, gridpoints, forecasts, alerts, pc, coords, i,
      distinct_points, filtered, fetched, returned, resolved, lookups, lastPoints,
      first_result,
      lastForecast, lastGet, periods, lastMerge, args, lastCall, lastAlerts, searches,
      lastSearch, inflight>>

store == <<coordinates, gridpoints, forecasts, alerts>>
request == <<pc, coords, i, distinct_points, filtered, fetched, returned, resolved, lookups>>
history == <<lastPoints, first_result, lastForecast, lastGet>>
merging == <<periods, lastMerge>>
apart == <<args, lastCall, lastAlerts, searches, lastSearch, inflight>>

NoCall == [called |-> FALSE]

\* the four cache collections
Namespaces == {"coordinates", "gridpoints", "forecasts", "alerts"}
NotFiltered == [raised |-> FALSE, entries |-> <<>>, done |-> FALSE, ignoreEta |-> FALSE]
EmptyCollection == [d \in {} |-> 0]

\* the store of a service that has handled nothing yet
ColdStore ==
    /\ coordinates = EmptyCollection
    /\ gridpoints = EmptyCollection
    /\ forecasts = EmptyCollection
    /\ alerts = EmptyCollection

\* the store an earlier request for "1.2345" leaves when every request and
\* write succeeded and the forecast document was doc
WarmStore(doc) ==
    LET lookup == getPoints(truncateCoordinate(Lat12345), truncateCoordinate(Lon95), 0,
                        EmptyCollection, EmptyCollection,
                        PointsEnv(FALSE,
                            PointsOk(truncateCoordinate(Lat12345), RequiredFields,
                                GridOf(truncateCoordinate(Lat12345)).gridId, NoMaxAge),
                            FALSE, FALSE))
        fetch == getForecast(lookup.point, 0, EmptyCollection, lookup.gridpoints,
                     ForecastEnv(FALSE, FALSE, ForecastResponse("ok", doc, NoMaxAge),
                         [kind |-> "ok", layers |-> SomeLayers], FALSE))
    IN  /\ coordinates = lookup.coordinates
        /\ gridpoints = fetch.gridpoints
        /\ forecasts = fetch.forecasts
        /\ alerts = EmptyCollection

\* everything but the store
InitRest ==
    /\ now = 0
    /\ model = FALSE
    /\ pc = "idle"
    /\ coords = <<>>
    /\ i = 1
    /\ distinct_points = <<>>
    /\ filtered = NotFiltered
    /\ fetched = <<>>
    /\ returned = <<>>
    /\ resolved = <<>>
    /\ lookups = 0
    /\ lastPoints = NoCall
    /\ first_result = EmptyCollection
    /\ lastForecast = NoCall
    /\ lastGet = NoCall
    /\ lastMerge = NoCall
    /\ args = <<>>
    /\ lastCall = NoCall
    /\ lastAlerts = NoCall
    /\ searches = EmptyCollection
    /\ lastSearch = NoCall
    /\ inflight = <<>>

\* a request arrives at a service whose store is empty or warm
Init ==
    /\ InitRest
    /\ periods = <<>>
    /\ ColdStore \/ \E doc \in ForecastDocs : WarmStore(doc)

\* the service starts with an empty store
InitCalls == InitRest /\ periods = <<>> /\ ColdStore

\* ---------------------------------------------------------- call history
\* the document for doc_id is there and unexpired at t
Fresh(collection, doc_id, t) ==
    /\ doc_id \in DOMAIN collection
    /\ collection[doc_id].expiresAt # Absent
    /\ t < collection[doc_id].expiresAt

\* record of a getPoints call on key, made at t on collection
PointsCall(key, collection, t, out) ==
    [called |-> TRUE, key |-> key, entry |-> key \in DOMAIN collection,
     fresh |-> Fresh(collection, key, t), requests |-> out.requests,
     point |-> out.point, raised |-> out.raised]

\* per key, the point returned by the latest call that found nothing fresh
FirstResult(before, key, collection, t, out) ==
    IF out.raised \/ Fresh(collection, key, t) THEN before
    ELSE [k \in DOMAIN before \cup {key} |-> IF k = key THEN out.point ELSE before[k]]

\* record of a getForecast call: what it returned and stored, and the
\* upstream period list and layers a stored document was built from
ForecastCall(point, out, env) ==
    [called |-> TRUE, point |-> point, raised |-> out.raised,
     forecast |-> out.forecast, hit |-> out.hit, wrote |-> out.wrote,
     written |-> out.written,
     fetched_periods |-> IF out.wrote THEN env.response.forecast_data.periods ELSE <<>>,
     layers |-> IF out.wrote THEN getGridpointData(env) ELSE empty_result,
     forecast_requests |-> out.forecast_requests,
     gridpoint_requests |-> out.gridpoint_requests,
     failures |-> out.failures]

\* ------------------------------------------------------------- getWeather
\* a request handler parses its coordinates and calls getWeather(coords)
GetWeatherStart(coordinate_list) ==
    /\ pc = "idle"
    /\ pc' = "points"
    /\ coords' = coordinate_list
    /\ i' = 1
    /\ distinct_points' = <<>>
    /\ filtered' = NotFiltered
    /\ fetched' = <<>>
    /\ returned' = <<>>
    /\ resolved' = <<>>
    /\ lookups' = 0
    /\ UNCHANGED <<now, model, store, history, merging, apart>>

DictKeys(dict) == {dict[n].point : n \in 1..Len(dict)}

\* a variant that keeps one entry per coordinate instead of one per point
DictSetNone_per_coordinate(dict, point) ==
    Append(dict, [point |-> point, forecast |-> NoneForecast])

\* distinct_points[point] = None
DictSetNone(dict, point) ==
    IF point \in DictKeys(dict)
    THEN [n \in 1..Len(dict) |->
            IF dict[n].point = point THEN [dict[n] EXCEPT !.forecast = NoneForecast]
            ELSE dict[n]]
    ELSE Append(dict, [point |-> point, forecast |-> NoneForecast])

\* distinct_points[point]
DictValue(dict, point) ==
    dict[CHOOSE n \in 1..Len(dict) : dict[n].point = point].forecast

\* a variant whose loop hands over to the forecast loop after its first
\* iteration
GetPointsStep_no_barrier(env) ==
    /\ pc = "points"
    /\ LET coordinate == coords[i]
           truncated_latitude == truncateCoordinate(coordinate.latitude)
           truncated_longitude == truncateCoordinate(coordinate.longitude)
           out == getPoints(truncated_latitude, truncated_longitude, now,
                            coordinates, gridpoints, env)
       IN  /\ coordinates' = out.coordinates
           /\ gridpoints' = out.gridpoints
           /\ lookups' = lookups + out.requests
           /\ IF \/ truncateCoordinateRaises(coordinate.latitude)
                 \/ truncateCoordinateRaises(coordinate.longitude)
                 \/ out.raised
              THEN /\ pc' = "raised"
                   /\ UNCHANGED <<coords, i, distinct_points, resolved>>
              ELSE /\ coords' = [coords EXCEPT ![i].point = out.point]
                   /\ resolved' = Append(resolved, i)
                   /\ distinct_points' = DictSetNone(distinct_points, out.point)
                   /\ pc' = "forecasts"
                   /\ i' = 1
    /\ UNCHANGED <<now, model, forecasts, alerts, filtered, fetched, returned, history, merging, apart>>

\* one iteration of the "Getting Points" loop
GetPointsStep(env) ==
    /\ pc = "points"
    /\ LET coordinate == coords[i]
           truncated_latitude == truncateCoordinate(coordinate.latitude)
           truncated_longitude == truncateCoordinate(coordinate.longitude)
           out == getPoints(truncated_latitude, truncated_longitude, now,
                            coordinates, gridpoints, env)
       IN  /\ coordinates' = out.coordinates
           /\ gridpoints' = out.gridpoints
           /\ lookups' = lookups + out.requests
           /\ IF \/ truncateCoordinateRaises(coordinate.latitude)
                 \/ truncateCoordinateRaises(coordinate.longitude)
                 \/ out.raised
              THEN /\ pc' = "raised"
                   /\ UNCHANGED <<coords, i, distinct_points, resolved>>
              ELSE /\ coords' = [coords EXCEPT ![i].point = out.point]
                   /\ resolved' = Append(resolved, i)
                   /\ distinct_points' = DictSetNone(distinct_points, out.point)
                   /\ pc' = IF i = Len(coords) THEN "forecasts" ELSE "points"
                   /\ i' = IF i = Len(coords) THEN 1 ELSE i + 1
    /\ UNCHANGED <<now, model, forecasts, alerts, filtered, fetched, returned, history, merging, apart>>

\* one iteration of the "Getting Forecasts" loop
GetForecastStep(env) ==
    /\ pc = "forecasts"
    /\ LET point == distinct_points[i].point
           out == getForecast(point, now, forecasts, gridpoints, env)
       IN  IF is_not_empty(point)
           THEN /\ forecasts' = out.forecasts
                /\ gridpoints' = out.gridpoints
                /\ distinct_points' = [distinct_points EXCEPT ![i].forecast = out.forecast]
                /\ fetched' = Append(fetched, point)
                /\ returned' = Append(returned, out.forecast)
           ELSE UNCHANGED <<forecasts, gridpoints, distinct_points, fetched, returned>>
    /\ pc' = IF i = Len(distinct_points) THEN "fanin" ELSE "forecasts"
    /\ i' = IF i = Len(distinct_points) THEN 1 ELSE i + 1
    /\ UNCHANGED <<now, model, coordinates, alerts, coords, filtered, resolved, lookups, history,
                   merging, apart>>

\* a variant of the last loop that pairs coordinates and dictionary entries
\* by position
FanIn_by_position ==
    /\ pc = "fanin"
    /\ coords' = [n \in 1..Len(coords) |->
                    IF n <= Len(distinct_points)
                    THEN [coords[n] EXCEPT !.forecasts = distinct_points[n].forecast]
                    ELSE coords[n]]
    /\ pc' = "done"
    /\ UNCHANGED <<now, model, store, i, distinct_points, filtered, fetched, returned,
                   resolved, lookups, history, merging, apart>>

\* the last loop: coordinate.forecasts = distinct_points[coordinate.point]
FanIn ==
    /\ pc = "fanin"
    /\ coords' = [n \in 1..Len(coords) |->
                    IF coords[n].point \in DictKeys(distinct_points)
                    THEN [coords[n] EXCEPT !.forecasts =
                              DictValue(distinct_points, coords[n].point)]
                    ELSE coords[n]]
    /\ pc' = "done"
    /\ UNCHANGED <<now, model, store, i, distinct_points, filtered, fetched, returned, resolved,
                   lookups, history, merging, apart>>

\* the handler's next statement: filterWeatherData(coords, request.ignoreEta)
Filter(ignoreEta) ==
    /\ pc = "done"
    /\ LET out == filterWeatherData(coords, ignoreEta)
       IN  /\ filtered' = [raised |-> out.raised, entries |-> out.entries, done |-> TRUE,
                           ignoreEta |-> ignoreEta]
           /\ pc' = IF out.raised THEN "raised" ELSE "responded"
    /\ UNCHANGED <<now, model, store, coords, i, distinct_points, fetched, returned, resolved,
                   lookups, history, merging, apart>>

Next ==
    \/ \E coordinate_list \in CoordLists : GetWeatherStart(coordinate_list)
    \/ /\ pc = "points"
       /\ \E env \in PointsEnvs(truncateCoordinate(coords[i].latitude)) : GetPointsStep(env)
    \/ \E env \in BatchForecastEnvs : GetForecastStep(env)
    \/ FanIn
    \/ \E ignoreEta \in BOOLEAN : Filter(ignoreEta)

Spec == Init /\ [][Next]_vars

\* ------------------------------------------- the two lookups, call by call
\* getPoints and getForecast called on their own, any number of times and at
\* any time, as successive requests do
InputLatitudes == {Lat12345, Lat123456, Lat25}

\* the grid cell getForecast is called for
FetchedLatitude == Lat12345

FetchedPoint ==
    Point(GridOf(truncateCoordinate(FetchedLatitude)).gridId,
          str(GridOf(truncateCoordinate(FetchedLatitude)).gridX),
          str(GridOf(truncateCoordinate(FetchedLatitude)).gridY))

\* time passes between calls
Tick ==
    /\ now < MaxTicks * TickSeconds
    /\ now' = now + TickSeconds
    /\ UNCHANGED <<model, store, request, history, merging, apart>>

CallGetPoints(latitude, env) ==
    LET truncated_latitude == truncateCoordinate(latitude)
        truncated_longitude == truncateCoordinate(Lon95)
        key == create_coordinate_doc_id(truncated_latitude, truncated_longitude)
        out == getPoints(truncated_latitude, truncated_longitude, now,
                         coordinates, gridpoints, env)
    IN  /\ coordinates' = out.coordinates
        /\ gridpoints' = out.gridpoints
        /\ lastPoints' = PointsCall(key, coordinates, now, out)
        /\ first_result' = FirstResult(first_result, key, coordinates, now, out)
        /\ UNCHANGED <<now, model, forecasts, alerts, request, lastForecast, lastGet, merging, apart>>

CallGetForecast(point, env) ==
    LET out == getForecast(point, now, forecasts, gridpoints, env)
    IN  /\ forecasts' = out.forecasts
        /\ gridpoints' = out.gridpoints
        /\ lastForecast' = ForecastCall(point, out, env)
        /\ UNCHANGED <<now, model, coordinates, alerts, request, lastPoints, first_result, lastGet, merging, apart>>

\* a getPoints call seen only through what it leaves in the store
ResolvePoint(latitude, env) ==
    LET out == getPoints(truncateCoordinate(latitude), truncateCoordinate(Lon95), now,
                         coordinates, gridpoints, env)
    IN  /\ coordinates' = out.coordinates
        /\ gridpoints' = out.gridpoints
        /\ UNCHANGED <<now, model, forecasts, alerts, request, history, merging, apart>>

NextPoints ==
    \/ Tick
    \/ \E latitude \in InputLatitudes :
          \E env \in PointsEnvs(truncateCoordinate(latitude)) :
             CallGetPoints(latitude, env)

\* successive getPoints calls
SpecPoints == InitCalls /\ [][NextPoints]_vars

\* ride_quality.load_model when the model file is found
load_model ==
    /\ ~model
    /\ model' = TRUE
    /\ UNCHANGED <<now, store, request, history, merging, apart>>

NextForecast ==
    \/ Tick
    \/ load_model
    \/ \E env \in PointsEnvs(truncateCoordinate(FetchedLatitude)) :
          ResolvePoint(FetchedLatitude, env)
    \/ \E env \in ForecastEnvs : CallGetForecast(FetchedPoint, env)

\* successive getForecast calls for a grid cell that getPoints resolves
SpecForecast == InitCalls /\ [][NextForecast]_vars

\* ---------------------------------------------------- the cache collections
\* the document each collection is exercised with: the coordinate "1.2345",
\* "-9.5" and the grid cell it lies in
StoreGrid == GridOf(truncateCoordinate(Lat12345))

\* the time-to-live values entries are written with
StoreTTLs == {0, TickSeconds}

\* the collection of a namespace
Collection(namespace) ==
    CASE namespace = "coordinates" -> coordinates
      [] namespace = "gridpoints" -> gridpoints
      [] namespace = "forecasts" -> forecasts
      [] namespace = "alerts" -> alerts

\* the id of the exercised document in a namespace
DocId(namespace) ==
    IF namespace \in {"coordinates", "alerts"}
    THEN create_coordinate_doc_id(truncateCoordinate(Lat12345), truncateCoordinate(Lon95))
    ELSE create_gridpoint_doc_id(StoreGrid.gridId, str(StoreGrid.gridX), str(StoreGrid.gridY))

\* the namespace's set_... function called with expires_at
StoreSetCall(namespace, collection, expires_at) ==
    CASE namespace = "coordinates" ->
            set_coordinate_to_gridpoints(collection, truncateCoordinate(Lat12345),
                truncateCoordinate(Lon95), StoreGrid.gridId, str(StoreGrid.gridX),
                str(StoreGrid.gridY), expires_at)
      [] namespace = "gridpoints" ->
            set_gridpoints_to_forecast_url(collection, StoreGrid.gridId,
                str(StoreGrid.gridX), str(StoreGrid.gridY),
                <<"forecastHourly", StoreGrid.gridId>>, expires_at)
      [] namespace = "forecasts" ->
            set_gridpoints_to_forecast(collection, StoreGrid.gridId,
                str(StoreGrid.gridX), str(StoreGrid.gridY),
                ForecastJson(<<120>>, <<Period10>>), expires_at)
      [] namespace = "alerts" ->
            set_alerts(collection, truncateCoordinate(Lat12345),
                truncateCoordinate(Lon95), <<"Wind Advisory">>, expires_at)

\* the namespace's get_... function called at t
StoreGetCall(namespace, collection, t) ==
    CASE namespace = "coordinates" ->
            get_coordinate_to_gridpoints(collection, truncateCoordinate(Lat12345),
                truncateCoordinate(Lon95), t)
      [] namespace = "gridpoints" ->
            get_gridpoints_to_forecast_url(collection, StoreGrid.gridId,
                str(StoreGrid.gridX), str(StoreGrid.gridY), t)
      [] namespace = "forecasts" ->
            get_gridpoints_to_forecast(collection, StoreGrid.gridId,
                str(StoreGrid.gridX), str(StoreGrid.gridY), t)
      [] namespace = "alerts" ->
            get_alerts(collection, truncateCoordinate(Lat12345),
                truncateCoordinate(Lon95), t)

\* a document written by something that set no expiresAt
Undated(namespace) ==
    [d \in {DocId(namespace)} |->
        [StoreSetCall(namespace, EmptyCollection, Absent)[DocId(namespace)]
            EXCEPT !.expiresAt = Absent]]

\* the four collections after one of them was replaced
StoreAfter(namespace, collection) ==
    /\ coordinates' = IF namespace = "coordinates" THEN collection ELSE coordinates
    /\ gridpoints' = IF namespace = "gridpoints" THEN collection ELSE gridpoints
    /\ forecasts' = IF namespace = "forecasts" THEN collection ELSE forecasts
    /\ alerts' = IF namespace = "alerts" THEN collection ELSE alerts

\* record of a get made at t on collection: whether the document existed,
\* its expiresAt, what the get returned and whether the document remains
GetRecord(namespace, collection, t, out) ==
    [called |-> TRUE,
     namespace |-> namespace,
     existed |-> DocId(namespace) \in DOMAIN collection,
     expiresAt |-> IF DocId(namespace) \in DOMAIN collection
                   THEN collection[DocId(namespace)].expiresAt ELSE Absent,
     t |-> t,
     data |-> out.data,
     remains |-> DocId(namespace) \in DOMAIN out.collection]

StoreSet(namespace, ttl) ==
    /\ StoreAfter(namespace, StoreSetCall(namespace, Collection(namespace), now + ttl))
    /\ UNCHANGED <<now, model, request, history, merging, apart>>

StoreGet(namespace) ==
    LET out == StoreGetCall(namespace, Collection(namespace), now)
    IN  /\ StoreAfter(namespace, out.collection)
        /\ lastGet' = GetRecord(namespace, Collection(namespace), now, out)
        /\ UNCHANGED <<now, model, request, lastPoints, first_result, lastForecast,
                       merging, apart>>

\* the store holds nothing, or in every collection a document without
\* expiresAt
InitStore ==
    /\ InitRest
    /\ periods = <<>>
    /\ \/ ColdStore
       \/ /\ coordinates = Undated("coordinates")
          /\ gridpoints = Undated("gridpoints")
          /\ forecasts = Undated("forecasts")
          /\ alerts = Undated("alerts")

NextStore ==
    \/ Tick
    \/ \E namespace \in Namespaces, ttl \in StoreTTLs : StoreSet(namespace, ttl)
    \/ \E namespace \in Namespaces : StoreGet(namespace)

\* sets and gets on the four cache collections as time passes
SpecStore == InitStore /\ [][NextStore]_vars

\* ------------------------------------------------- merge_gridpoint_data
\* start times of the periods merged: three that parse (two in the same
\* hour), one that does not, and a missing one
MergeStartTimes == {TS(10, 0, 0), TS(10, 30, 0), TS(11, 0, 0), BadTS, NoTS}

\* periods as they come from upstream or from an earlier merge (windGust set)
MergePeriods ==
    {[PeriodJson(start_time, TS(12, 0, 0), 70) EXCEPT !.windGust = gust] :
        start_time \in MergeStartTimes, gust \in {Absent, 5}}

RECURSIVE SeqsUpTo(_, _)
\* the sequences over set of length at most n
SeqsUpTo(set, n) ==
    IF n = 0 THEN {<<>>}
    ELSE SeqsUpTo(set, n - 1)
         \cup {Append(seq, e) : seq \in {q \in SeqsUpTo(set, n - 1) : Len(q) = n - 1},
                                e \in set}

PeriodLists == SeqsUpTo(MergePeriods, MaxPeriods)

\* windGust layers: same-hour entries only, with one that does not parse
SameHourLayers ==
    [windGust |-> <<[ts |-> BadTS, val |-> 35], [ts |-> TS(10, 15, 0), val |-> 20],
                    [ts |-> TS(10, 45, 0), val |-> 25]>>,
     visibility |-> <<>>,
     apparentTemperature |-> <<[ts |-> TS(11, 20, 0), val |-> 68]>>,
     relativeHumidity |-> <<>>]

\* layers in which the entry for 10:00 comes after another entry of its
\* hour, and one timestamp of the hour is written in another offset
ExactAfterSameHourLayers ==
    [windGust |-> <<[ts |-> TS(10, 15, 0), val |-> 20], [ts |-> TS(10, 0, 0), val |-> 30]>>,
     visibility |-> <<[ts |-> TS(10, 0, 1), val |-> 7], [ts |-> TS(10, 30, 0), val |-> 9]>>,
     apparentTemperature |-> <<>>,
     relativeHumidity |-> <<[ts |-> TS(11, 30, 0), val |-> 45],
                            [ts |-> TS(11, 0, 0), val |-> 40]>>]

\* the layer sets merged
MergeLayerSets ==
    {empty_result, SomeLayers, SameHourLayers, ExactAfterSameHourLayers,
     [SomeLayers EXCEPT !.windGust = <<[ts |-> TS(10, 0, 0), val |-> 30]>>]}

\* merge_gridpoint_data(forecast_data, gridpoint_data), in place
Merge(gridpoint_data) ==
    /\ periods' = merge_gridpoint_data(periods, gridpoint_data)
    /\ lastMerge' = [called |-> TRUE, before |-> periods, layers |-> gridpoint_data,
                     after |-> periods',
                     repeated |-> lastMerge.called /\ lastMerge.layers = gridpoint_data]
    /\ UNCHANGED <<now, model, store, request, history, apart>>

\* a forecast document's period list arrives
InitMerge == InitRest /\ ColdStore /\ periods \in PeriodLists

NextMerge == \E gridpoint_data \in MergeLayerSets : Merge(gridpoint_data)

\* successive merges into one period list
SpecMerge == InitMerge /\ [][NextMerge]_vars

\* ------------------------------------------------------------ score_periods
\* a value float() does not accept (a temperature such as "n/a")
Unparsable == -2

\* Scores the model predicts are in hundredths of a point, stored ride
\* scores in tenths.  max(0, min(100, score))
clamp_upper_only(score) == IF score > 100 * 100 THEN 100 * 100 ELSE score

clamp(score) ==
    IF score < 0 THEN 0 ELSE IF score > 100 * 100 THEN 100 * 100 ELSE score

\* round(x, 1) of a score in hundredths, in tenths (the predicted scores
\* below are never halfway between two tenths)
round1(score) == (score + 5) \div 10

\* extract_features: <<>> for None, else the feature vector.  The periods
\* here carry no windSpeed, probabilityOfPrecipitation or isDaytime, so
\* those features take their defaults.
extract_features(period) ==
    IF period.temperature = Absent \/ period.temperature = Unparsable THEN <<>>
    ELSE LET wind_speed == 0
             wind_gust == IF period.windGust # Absent THEN period.windGust
                          ELSE wind_speed
         IN  <<[temp |-> period.temperature,
                wind_speed |-> wind_speed,
                precip_prob |-> 0,
                visibility |-> IF period.visibility # Absent
                               THEN period.visibility ELSE 10,
                humidity |-> IF period.humidity # Absent THEN period.humidity ELSE 50,
                is_day |-> 1,
                wind_gust |-> wind_gust,
                gust_delta |-> wind_gust - wind_speed,
                apparent_temp |-> IF period.apparent_temperature # Absent
                                  THEN period.apparent_temperature
                                  ELSE period.temperature]>>

\* What model.predict does: it raises, answers the same score for every
\* row, or answers a score that grows with the row's temperature.
Predictors ==
    {[kind |-> "raises", value |-> 0], [kind |-> "by_temp", value |-> 0]}
    \cup {[kind |-> "const", value |-> v] : v \in {-2500, 4237, 15000}}

\* the score model.predict gives for one row
predict(predictor, features) ==
    IF predictor.kind = "const" THEN predictor.value
    ELSE 100 * features.temp + features.wind_gust

\* a variant that pairs the scores with the first periods of the list
valid_indices_by_position(period_list) ==
    LET extractable == {n \in 1..Len(period_list) : extract_features(period_list[n]) # <<>>}
    IN  [k \in 1..Cardinality(extractable) |-> k]

\* valid_indices: the positions, in order, of the periods with features
valid_indices(period_list) ==
    LET extractable == {n \in 1..Len(period_list) : extract_features(period_list[n]) # <<>>}
        nth(k) == CHOOSE n \in extractable :
                     Cardinality({m \in extractable : m < n}) = k - 1
    IN  [k \in 1..Cardinality(extractable) |-> nth(k)]

\* features_list: the feature vectors of those periods, in the same order
features_list(period_list) ==
    LET extractable == {n \in 1..Len(period_list) : extract_features(period_list[n]) # <<>>}
        nth(k) == CHOOSE n \in extractable :
                     Cardinality({m \in extractable : m < n}) = k - 1
    IN  [k \in 1..Cardinality(extractable) |-> extract_features(period_list[nth(k)])[1]]

\* score_periods(periods) with get_model() giving a model or None
score_periods(loaded, period_list, predictor) ==
    LET rows == features_list(period_list)
        indices == valid_indices(period_list)
        scores == [k \in 1..Len(rows) |-> predict(predictor, rows[k])]
    IN  IF ~loaded \/ Len(rows) = 0 \/ predictor.kind = "raises" THEN period_list
        ELSE [n \in 1..Len(period_list) |->
                IF \E k \in 1..Len(indices) : indices[k] = n
                THEN [period_list[n] EXCEPT !.ride_score =
                         round1(clamp(scores[CHOOSE k \in 1..Len(indices) :
                                                indices[k] = n]))]
                ELSE period_list[n]]

\* temperatures of the periods scored
ScoreTemperatures == {Absent, Unparsable, -5, 70, 120}

ScorePeriodLists ==
    SeqsUpTo({PeriodJson(TS(10, 0, 0), TS(11, 0, 0), t) : t \in ScoreTemperatures},
             MaxScored)

\* score_periods is called on the period list (it modifies it in place)
Score(predictor) ==
    /\ periods' = score_periods(model, periods, predictor)
    /\ lastCall' = [called |-> TRUE, loaded |-> model, before |-> periods,
                    after |-> periods', predictor |-> predictor, raised |-> FALSE]
    /\ UNCHANGED <<now, model, store, request, history, lastMerge, args, inflight,
                   lastAlerts, searches, lastSearch>>

InitScore == InitRest /\ ColdStore /\ periods \in ScorePeriodLists

NextScore ==
    \/ load_model
    \/ \E predictor \in Predictors : Score(predictor)

\* successive score_periods calls on one period list
SpecScore == InitScore /\ [][NextScore]_vars

\* ---------------------------------------------------------------- scan_break
\* Periods here are Period objects reduced to ride_score (in tenths of a
\* point, Absent for "" or None) and start_time.  _get_ride_score
get_ride_score(period) == period.ride_score

\* a variant that recommends at an improvement of 25 as well
clears_threshold_inclusive(improvement) == improvement >= BreakThreshold * 10

\* best_improvement > 25
clears_threshold(improvement) == improvement > BreakThreshold * 10

RECURSIVE ScanBest_latest_on_ties(_, _, _, _, _)
\* a variant of the loop that lets a later period replace an equal best
ScanBest_latest_on_ties(period_list, arrival_index, k, best_improvement, best_offset) ==
    LET scan_end == IF arrival_index + ScanSpan < Len(period_list)
                    THEN arrival_index + ScanSpan ELSE Len(period_list)
        score == get_ride_score(period_list[k + 1])
        improvement == score - get_ride_score(period_list[arrival_index + 1])
    IN  IF k >= scan_end
        THEN [best_improvement |-> best_improvement, best_offset |-> best_offset]
        ELSE IF score # Absent /\ improvement >= best_improvement /\ improvement > 0
        THEN ScanBest_latest_on_ties(period_list, arrival_index, k + 1, improvement,
                                     k - arrival_index)
        ELSE ScanBest_latest_on_ties(period_list, arrival_index, k + 1, best_improvement,
                                     best_offset)

RECURSIVE ScanBest(_, _, _, _, _)
\* the loop of scan_break from position k (0-based) to scan_end - 1, with
\* the best improvement and offset found so far
ScanBest(period_list, arrival_index, k, best_improvement, best_offset) ==
    LET scan_end == IF arrival_index + ScanSpan < Len(period_list)
                    THEN arrival_index + ScanSpan ELSE Len(period_list)
        score == get_ride_score(period_list[k + 1])
        improvement == score - get_ride_score(period_list[arrival_index + 1])
    IN  IF k >= scan_end
        THEN [best_improvement |-> best_improvement, best_offset |-> best_offset]
        ELSE IF score # Absent /\ improvement > best_improvement
        THEN ScanBest(period_list, arrival_index, k + 1, improvement, k - arrival_index)
        ELSE ScanBest(period_list, arrival_index, k + 1, best_improvement, best_offset)

\* scan_break(periods, arrival_index): <<>> for None, else the suggestion.
\* arrival_index is 0-based; Absent stands for None.
scan_break(period_list, arrival_index) ==
    IF arrival_index = Absent \/ arrival_index < 0 THEN <<>>
    ELSE IF arrival_index >= Len(period_list) THEN <<>>
    ELSE IF get_ride_score(period_list[arrival_index + 1]) = Absent THEN <<>>
    ELSE LET best == ScanBest(period_list, arrival_index, arrival_index + 1, 0, 0)
         IN  IF clears_threshold(best.best_improvement)
             THEN <<[type |-> "break",
                     arrival_score |-> get_ride_score(period_list[arrival_index + 1]),
                     optimized_score |->
                         get_ride_score(period_list[arrival_index + best.best_offset + 1]),
                     wait_hours |-> best.best_offset,
                     optimized_start_time |->
                         period_list[arrival_index + best.best_offset + 1].start_time]>>
             ELSE <<>>

\* ride scores of the periods scanned: none, 50, 75 and 80
ScanScores == {Absent, 500, 750, 800}

\* the hourly period list with the given scores
ScoredPeriods(scores) ==
    [n \in 1..Len(scores) |-> [ride_score |-> scores[n], start_time |-> TS(n, 0, 0)]]

\* period lists of up to longest periods and arrival indexes: None or
\* negative (Absent), every position of the list, and positions past it
ScanArgs(longest) ==
    {[periods |-> ScoredPeriods(scores), arrival_index |-> k] :
        scores \in SeqsUpTo(ScanScores, longest), k \in (-1)..longest}

\* scan_break is called on the arguments
ScanBreak ==
    /\ lastCall' = [called |-> TRUE,
                    result |-> scan_break(args.periods, args.arrival_index)]
    /\ UNCHANGED <<now, model, store, request, history, merging, args, inflight,
                   lastAlerts, searches, lastSearch>>

\* InitRest with the arguments of a call in place of no arguments
InitArgs(arguments) ==
    /\ now = 0
    /\ model = FALSE
    /\ pc = "idle"
    /\ coords = <<>>
    /\ i = 1
    /\ distinct_points = <<>>
    /\ filtered = NotFiltered
    /\ fetched = <<>>
    /\ returned = <<>>
    /\ resolved = <<>>
    /\ lookups = 0
    /\ lastPoints = NoCall
    /\ first_result = EmptyCollection
    /\ lastForecast = NoCall
    /\ lastGet = NoCall
    /\ lastMerge = NoCall
    /\ periods = <<>>
    /\ args \in arguments
    /\ lastCall = NoCall
    /\ lastAlerts = NoCall
    /\ searches = EmptyCollection
    /\ lastSearch = NoCall
    /\ inflight = <<>>
    /\ ColdStore

InitScan == InitArgs(ScanArgs(MaxScanned))

NextScan == ScanBreak

\* scan_break on every period list and arrival index
SpecScan == InitScan /\ [][NextScan]_vars

\* ------------------------------------------------------ scan_departure_window
RECURSIVE SumSeq(_)
SumSeq(scores) == IF scores = <<>> THEN 0 ELSE Head(scores) + SumSeq(Tail(scores))

\* round(sum(scores) / len(scores), 1) on scores in tenths: the nearest
\* tenth, a tie going to the even one
average_score(scores) ==
    LET total == SumSeq(scores)
        floor == total \div Len(scores)
        rest == total % Len(scores)
    IN  IF 2 * rest < Len(scores) THEN floor
        ELSE IF 2 * rest > Len(scores) THEN floor + 1
        ELSE IF floor % 2 = 0 THEN floor ELSE floor + 1

RECURSIVE MinLen(_)
\* min(len(wp) for wp in all_waypoint_periods), of a non-empty list
MinLen(all_waypoint_periods) ==
    IF Len(all_waypoint_periods) = 1 THEN Len(all_waypoint_periods[1])
    ELSE LET rest == MinLen(Tail(all_waypoint_periods))
         IN  IF Len(all_waypoint_periods[1]) < rest
             THEN Len(all_waypoint_periods[1]) ELSE rest

\* a variant that asks for a period at start_hour + waypoint_idx, scored or not
ScenarioValid_in_range_only(all_waypoint_periods, start_hour) ==
    \A w \in 1..Len(all_waypoint_periods) :
        start_hour + (w - 1) < Len(all_waypoint_periods[w])

\* the inner loop for one start_hour: valid when every waypoint has a
\* scored period at start_hour + waypoint_idx (both 0-based)
ScenarioValid(all_waypoint_periods, start_hour) ==
    \A w \in 1..Len(all_waypoint_periods) :
        /\ start_hour + (w - 1) < Len(all_waypoint_periods[w])
        /\ get_ride_score(all_waypoint_periods[w][start_hour + w]) # Absent

ScenarioScores(all_waypoint_periods, start_hour) ==
    [w \in 1..Len(all_waypoint_periods) |->
        get_ride_score(all_waypoint_periods[w][start_hour + w])]

RECURSIVE Scenarios(_, _, _)
\* the scenarios list built by the loop over range(max_start), from start_hour on
Scenarios(all_waypoint_periods, start_hour, max_start) ==
    IF start_hour >= max_start THEN <<>>
    ELSE (IF ScenarioValid(all_waypoint_periods, start_hour)
          THEN <<[start_hour |-> start_hour,
                  average_score |->
                      average_score(ScenarioScores(all_waypoint_periods, start_hour)),
                  departure_time |-> all_waypoint_periods[1][start_hour + 1].start_time]>>
          ELSE <<>>)
         \o Scenarios(all_waypoint_periods, start_hour + 1, max_start)

\* a variant that takes the latest scenario as the best one
best_scenario_latest(scenarios) == scenarios[Len(scenarios)]

\* max(scenarios, key=average_score): the first scenario of highest average
best_scenario(scenarios) ==
    scenarios[CHOOSE n \in 1..Len(scenarios) :
        /\ \A m \in 1..Len(scenarios) :
              scenarios[m].average_score <= scenarios[n].average_score
        /\ \A m \in 1..(n - 1) :
              scenarios[m].average_score < scenarios[n].average_score]

\* scan_departure_window(all_waypoint_periods, hours_to_scan): <<>> for None
scan_departure_window(all_waypoint_periods, hours_to_scan) ==
    IF all_waypoint_periods = <<>> THEN <<>>
    ELSE IF MinLen(all_waypoint_periods) = 0 THEN <<>>
    ELSE LET num_waypoints == Len(all_waypoint_periods)
             available == MinLen(all_waypoint_periods) - num_waypoints + 1
             max_start == IF hours_to_scan < available THEN hours_to_scan ELSE available
             scenarios == Scenarios(all_waypoint_periods, 0, max_start)
         IN  IF max_start <= 0 THEN <<>>
             ELSE IF scenarios = <<>> THEN <<>>
             ELSE IF scenarios[1].start_hour # 0 THEN <<>>
             ELSE <<[golden_window |->
                        [departure_time |-> best_scenario(scenarios).departure_time,
                         average_score |-> best_scenario(scenarios).average_score],
                     improvement |-> best_scenario(scenarios).average_score
                                        - scenarios[1].average_score]>>

\* ride scores of the waypoints' periods: none, 50, 65.5 and 80
DepartureScores == {Absent, 500, 655, 800}

\* a trip has no, one or two waypoints
WaypointCounts == 0..2

\* hours_to_scan: the default and two short scans
HoursToScan == {1, 2, 12}

\* trips whose waypoints have up to longest periods each
DepartureArgs(longest) ==
    {[all_waypoint_periods |-> [w \in 1..Len(lists) |-> ScoredPeriods(lists[w])],
      hours_to_scan |-> hours] :
        lists \in UNION {[1..n -> SeqsUpTo(DepartureScores, longest)] : n \in WaypointCounts},
        hours \in HoursToScan}

\* scan_departure_window is called on the arguments
ScanDepartureWindow ==
    /\ lastCall' = [called |-> TRUE,
                    result |-> scan_departure_window(args.all_waypoint_periods,
                                                     args.hours_to_scan)]
    /\ UNCHANGED <<now, model, store, request, history, merging, args, inflight,
                   lastAlerts, searches, lastSearch>>

InitDeparture == InitArgs(DepartureArgs(MaxHours))

NextDeparture == ScanDepartureWindow

\* scan_departure_window on every trip and scan length
SpecDeparture == InitDeparture /\ [][NextDeparture]_vars

\* ------------------------------------------------- truncateCoordinate calls
\* decimal coordinate strings, as sequences of characters: a whole part,
\* alone or followed by "." and up to longest digits
WholeParts == {<<"3", "7">>, <<"-", "1", "2", "2">>}

FractionDigits == {"1", "2", "4", "5", "8"}

CoordinateStrings(longest) ==
    WholeParts
    \cup {whole \o <<".">> \o fraction :
            whole \in WholeParts, fraction \in SeqsUpTo(FractionDigits, longest)}

\* truncateCoordinate is called on the string, and once more on what it
\* returned
Truncate ==
    /\ lastCall' = [called |-> TRUE,
                    raised |-> truncateCoordinateRaises(args),
                    result |-> truncateCoordinate(args),
                    again |-> truncateCoordinate(truncateCoordinate(args))]
    /\ UNCHANGED <<now, model, store, request, history, merging, args, inflight,
                   lastAlerts, searches, lastSearch>>

InitTruncate == InitArgs(CoordinateStrings(MaxFraction))

NextTruncate == Truncate

\* truncateCoordinate on every coordinate string
SpecTruncate == InitTruncate /\ [][NextTruncate]_vars

\* the longest string of AnyStrings
MaxChars == 4

\* strings of any make: empty, with several ".", with characters that are
\* no digits
AnyStrings(longest) == SeqsUpTo({"7", ".", "x"}, longest)

InitTruncateAny == InitArgs(AnyStrings(MaxChars))

\* truncateCoordinate on every string
SpecTruncateAny == InitTruncateAny /\ [][NextTruncate]_vars

\* ------------------------------------------------------- Forecast.is_empty
\* elevations of fetched documents: sea level, above it and below it
FetchedElevations == {0, 120, -40}

\* Forecast({}), and the Forecast of every fetched document with an
\* elevation: any period list, the empty one included
SomeForecasts ==
    {EmptyForecast}
    \cup {ForecastInit(ForecastJson(<<elevation>>, period_list)) :
            elevation \in FetchedElevations, period_list \in PeriodLists}

\* is_empty is called on the forecast
IsEmpty ==
    /\ lastCall' = [called |-> TRUE, result |-> is_empty(args)]
    /\ UNCHANGED <<now, model, store, request, history, merging, args, inflight,
                   lastAlerts, searches, lastSearch>>

InitIsEmpty == InitArgs(SomeForecasts)

NextIsEmpty == IsEmpty

\* is_empty on every forecast
SpecIsEmpty == InitIsEmpty /\ [][NextIsEmpty]_vars

\* ------------------------------------------- the two lookups and their TTLs
\* getPoints called at any time, with a record of the call's time and of the
\* Cache-Control header of the answer
TimedGetPoints(latitude, env) ==
    LET truncated_latitude == truncateCoordinate(latitude)
        truncated_longitude == truncateCoordinate(Lon95)
        out == getPoints(truncated_latitude, truncated_longitude, now,
                         coordinates, gridpoints, env)
    IN  /\ coordinates' = out.coordinates
        /\ gridpoints' = out.gridpoints
        /\ lastCall' = [called |-> TRUE, function |-> "getPoints", time |-> now,
                        key |-> create_coordinate_doc_id(truncated_latitude,
                                                         truncated_longitude),
                        cache_control |-> env.response.cache_control,
                        requests |-> out.requests, raised |-> out.raised,
                        point |-> out.point, wrote |-> FALSE,
                        response_kind |-> env.response.kind,
                        response_fields |-> env.response.fields,
                        coordinates_before |-> coordinates,
                        gridpoints_before |-> gridpoints]
        /\ UNCHANGED <<now, model, forecasts, alerts, request, history, merging, args, inflight,
                       lastAlerts, searches, lastSearch>>

\* getForecast called at any time, with the same record; point_requests is
\* the number of point lookups the call makes: getForecast has no call of
\* getPoints or of the points endpoint
TimedGetForecast(point, env) ==
    LET out == getForecast(point, now, forecasts, gridpoints, env)
    IN  /\ forecasts' = out.forecasts
        /\ gridpoints' = out.gridpoints
        /\ lastCall' = [called |-> TRUE, function |-> "getForecast", time |-> now,
                        key |-> create_gridpoint_doc_id(point.grid_id, point.grid_x,
                                                        point.grid_y),
                        cache_control |-> env.response.cache_control,
                        requests |-> out.forecast_requests, raised |-> out.raised,
                        point |-> point, wrote |-> out.wrote,
                        hit |-> out.hit, forecast |-> out.forecast,
                        gridpoint_requests |-> out.gridpoint_requests,
                        point_requests |-> 0,
                        get_url_fails |-> env.get_url_fails,
                        forecasts_before |-> forecasts,
                        gridpoints_before |-> gridpoints]
        /\ UNCHANGED <<now, model, coordinates, alerts, request, history, merging, args, inflight,
                       lastAlerts, searches, lastSearch>>

\* the part of ForecastEnvs the TTL depends on: every failure, and every
\* Cache-Control header on one forecast document enriched with layers
ExpiryForecastEnvs ==
    {e \in ForecastEnvs :
        e.response.kind = "ok" =>
            /\ e.response.forecast_data = ForecastJson(<<>>, <<Period10>>)
            /\ e.gridpoint_response = [kind |-> "ok", layers |-> SomeLayers]}

NextExpiry ==
    \/ Tick
    \/ \E env \in PointsEnvs(truncateCoordinate(FetchedLatitude)) :
          TimedGetPoints(FetchedLatitude, env)
    \/ \E env \in ExpiryForecastEnvs : TimedGetForecast(FetchedPoint, env)

\* successive getPoints and getForecast calls for one grid cell
SpecExpiry == InitCalls /\ [][NextExpiry]_vars

\* ---------------------------------------------------------- getActiveAlerts
\* The answer of the alerts request: kind is "exception" (network error,
\* timeout, undecodable body), "not_ok" or "ok"; features is the list under
\* "features", <<>> with has_features FALSE when the key is missing.
AlertsResponse(kind, has_features, features, cache_control) ==
    [kind |-> kind, has_features |-> has_features, features |-> features,
     cache_control |-> cache_control]

\* env.get_alerts_fails / env.set_alerts_fails: the Firestore call raises
AlertsEnv(get_alerts_fails, response, set_alerts_fails) ==
    [get_alerts_fails |-> get_alerts_fails, response |-> response,
     set_alerts_fails |-> set_alerts_fails]

\* What getActiveAlerts hands back: the list or that the call raised, the
\* collection after the call and the number of upstream requests made.
AlertsOutcome(raised, alert_list, alerts_after, requests) ==
    [raised |-> raised, alert_list |-> alert_list, alerts |-> alerts_after,
     requests |-> requests]

\* response_json.get("features", [])
Features(response) == IF response.has_features THEN response.features ELSE <<>>

\* a variant that takes an empty cached list for a miss
getActiveAlerts_truthy(latitude, longitude, t, alerts_coll, env) ==
    LET cached == get_alerts(alerts_coll, latitude, longitude, t)
        response == env.response
        expires_at == t + AlertTTLMinutes * 60
    IN  IF env.get_alerts_fails THEN AlertsOutcome(TRUE, <<>>, alerts_coll, 0)
        ELSE IF cached.data # <<>> /\ cached.data[1] # <<>>
        THEN AlertsOutcome(FALSE, cached.data[1], cached.collection, 0)
        ELSE IF response.kind # "ok" THEN AlertsOutcome(FALSE, <<>>, cached.collection, 1)
        ELSE AlertsOutcome(FALSE, Features(response),
                 IF env.set_alerts_fails THEN cached.collection
                 ELSE set_alerts(cached.collection, latitude, longitude,
                          Features(response), expires_at),
                 1)

\* getActiveAlerts; the cache read is outside the try block, so its
\* exception leaves getActiveAlerts; the cache write has a try of its own
getActiveAlerts(latitude, longitude, t, alerts_coll, env) ==
    LET cached == get_alerts(alerts_coll, latitude, longitude, t)
        response == env.response
        expires_at == t + AlertTTLMinutes * 60
    IN  IF env.get_alerts_fails THEN AlertsOutcome(TRUE, <<>>, alerts_coll, 0)
        ELSE IF cached.data # <<>>
        THEN AlertsOutcome(FALSE, cached.data[1], cached.collection, 0)
        ELSE IF response.kind # "ok" THEN AlertsOutcome(FALSE, <<>>, cached.collection, 1)
        ELSE AlertsOutcome(FALSE, Features(response),
                 IF env.set_alerts_fails THEN cached.collection
                 ELSE set_alerts(cached.collection, latitude, longitude,
                          Features(response), expires_at),
                 1)

\* every answer the alerts request can give: a failure, or a list of no
\* alert or one alert (or no "features" key), with or without a max-age
AlertsResponses ==
    {AlertsResponse(kind, FALSE, <<>>, NoMaxAge) : kind \in {"exception", "not_ok"}}
    \cup {AlertsResponse("ok", FALSE, <<>>, cc) : cc \in {NoMaxAge, MaxAge(TickSeconds)}}
    \cup {AlertsResponse("ok", TRUE, features, cc) :
            features \in {<<>>, <<"flood">>},
            cc \in {NoMaxAge, MaxAge(TickSeconds)}}

\* what can happen around one getActiveAlerts call: the cache read raises;
\* or it works and the request gives any answer, the write raising or not
\* when the answer is a list
AlertsEnvs ==
    {AlertsEnv(TRUE, AlertsResponse("exception", FALSE, <<>>, NoMaxAge), FALSE)}
    \cup {AlertsEnv(FALSE, r, FALSE) : r \in AlertsResponses}
    \cup {AlertsEnv(FALSE, r, TRUE) : r \in {q \in AlertsResponses : q.kind = "ok"}}

\* the coordinates alerts are asked for
AlertLatitudes == {Lat12345, Lat25}

\* the clock advances by half the alert TTL
AlertTick ==
    /\ now < MaxAlertTicks * ((AlertTTLMinutes * 60) \div 2)
    /\ now' = now + (AlertTTLMinutes * 60) \div 2
    /\ UNCHANGED <<model, store, request, history, merging, apart>>

\* getActiveAlerts called for a coordinate, with a record of the call
CallGetActiveAlerts(latitude, env) ==
    LET out == getActiveAlerts(latitude, Lon95, now, alerts, env)
    IN  /\ alerts' = out.alerts
        /\ lastAlerts' = [called |-> TRUE, time |-> now,
                          key |-> create_coordinate_doc_id(latitude, Lon95),
                          before |-> alerts, env |-> env, raised |-> out.raised,
                          requests |-> out.requests, alert_list |-> out.alert_list]
        /\ UNCHANGED <<now, model, coordinates, gridpoints, forecasts, request, history,
                       merging, args, inflight, lastCall, searches, lastSearch>>

NextAlerts ==
    \/ AlertTick
    \/ \E latitude \in AlertLatitudes, env \in AlertsEnvs :
          CallGetActiveAlerts(latitude, env)

\* successive getActiveAlerts calls
SpecAlerts == InitCalls /\ [][NextAlerts]_vars

\* ------------------------------------------------------------ saved searches
\* create_search: the document is set under the id the request carries
create_search(collection, search_id, user_id, timestamp, t) ==
    LET search_data == [id |-> search_id, userId |-> user_id, timestamp |-> timestamp,
                        createdAt |-> t, updatedAt |-> t]
    IN  [data |-> search_data, collection |-> SetDoc(collection, search_id, search_data)]

\* get_search: <<>> for None
get_search(collection, search_id) ==
    IF search_id \in DOMAIN collection THEN <<collection[search_id]>> ELSE <<>>

\* get_user_searches: the documents whose userId is user_id
get_user_searches(collection, user_id) ==
    {collection[d] : d \in {e \in DOMAIN collection : collection[e].userId = user_id}}

\* delete_search
delete_search(collection, search_id) ==
    IF search_id \in DOMAIN collection
    THEN [deleted |-> TRUE, collection |-> DeleteDoc(collection, search_id)]
    ELSE [deleted |-> FALSE, collection |-> collection]

\* delete_user_searches
delete_user_searches(collection, user_id) ==
    LET kept == {d \in DOMAIN collection : collection[d].userId # user_id}
    IN  [deleted |-> Cardinality(DOMAIN collection \ kept),
         collection |-> [d \in kept |-> collection[d]]]

\* the authenticated users, the ids their frontends choose and the
\* timestamps a search is saved with
Users == {"A", "B"}
SearchIds == {"s1", "s2"}
SearchTimestamps == {"t1", "t2"}

\* record of a request: who made it, the collection before it, the status
\* and the searches in the response
SearchRequest(endpoint, user, search_id, status, body) ==
    [called |-> TRUE, endpoint |-> endpoint, user |-> user, search_id |-> search_id,
     before |-> searches, status |-> status, body |-> body]

\* POST /searches/
create_search_endpoint(user, search_id, timestamp) ==
    LET created == create_search(searches, search_id, user, timestamp, now)
    IN  /\ searches' = created.collection
        /\ lastSearch' = SearchRequest("create", user, search_id, 200, {created.data})
        /\ UNCHANGED <<now, model, store, request, history, merging, args, inflight, lastCall,
                       lastAlerts>>

\* GET /searches/
get_searches_endpoint(user) ==
    /\ lastSearch' = SearchRequest("list", user, "", 200, get_user_searches(searches, user))
    /\ UNCHANGED <<now, model, store, request, history, merging, args, inflight, lastCall,
                   lastAlerts, searches>>

\* GET /searches/{search_id}
get_search_endpoint(user, search_id) ==
    LET search_data == get_search(searches, search_id)
    IN  /\ lastSearch' =
              IF search_data = <<>> THEN SearchRequest("get", user, search_id, 404, {})
              ELSE IF search_data[1].userId # user
              THEN SearchRequest("get", user, search_id, 403, {})
              ELSE SearchRequest("get", user, search_id, 200, {search_data[1]})
        /\ UNCHANGED <<now, model, store, request, history, merging, args, inflight, lastCall,
                       lastAlerts, searches>>

\* DELETE /searches/{search_id}
delete_search_endpoint(user, search_id) ==
    LET search_data == get_search(searches, search_id)
    IN  /\ IF search_data = <<>>
           THEN /\ lastSearch' = SearchRequest("delete", user, search_id, 404, {})
                /\ UNCHANGED searches
           ELSE IF search_data[1].userId # user
           THEN /\ lastSearch' = SearchRequest("delete", user, search_id, 403, {})
                /\ UNCHANGED searches
           ELSE /\ lastSearch' = SearchRequest("delete", user, search_id, 204, {})
                /\ searches' = delete_search(searches, search_id).collection
        /\ UNCHANGED <<now, model, store, request, history, merging, args, inflight, lastCall,
                       lastAlerts>>

\* DELETE /searches/
delete_all_searches_endpoint(user) ==
    /\ searches' = delete_user_searches(searches, user).collection
    /\ lastSearch' = SearchRequest("delete_all", user, "", 200, {})
    /\ UNCHANGED <<now, model, store, request, history, merging, args, inflight, lastCall,
                   lastAlerts>>

NextSearches ==
    \/ \E user \in Users, search_id \in SearchIds, timestamp \in SearchTimestamps :
          create_search_endpoint(user, search_id, timestamp)
    \/ \E user \in Users : get_searches_endpoint(user)
    \/ \E user \in Users, search_id \in SearchIds : get_search_endpoint(user, search_id)
    \/ \E user \in Users, search_id \in SearchIds : delete_search_endpoint(user, search_id)
    \/ \E user \in Users : delete_all_searches_endpoint(user)

\* the saved-search requests of two users, in any order
SpecSearches == InitCalls /\ [][NextSearches]_vars

\* ------------------------------------------------- cleanup_expired_documents
\* a variant whose query takes the documents expiring at t as well
expired_docs_inclusive(collection, t) ==
    {d \in DOMAIN collection :
        collection[d].expiresAt # Absent /\ collection[d].expiresAt <= t}

\* .where(filter=FieldFilter("expiresAt", "<", now)).stream(): the ids of the
\* documents whose expiresAt is before t (a document without the field
\* matches no filter)
expired_docs(collection, t) ==
    {d \in DOMAIN collection :
        collection[d].expiresAt # Absent /\ collection[d].expiresAt < t}

\* for doc in expired_docs: doc.reference.delete()
DeleteDocs(collection, doc_ids) ==
    [d \in DOMAIN collection \ doc_ids |-> collection[d]]

\* the order in which the sweep goes through the collections
SweepOrder == <<"coordinates", "gridpoints", "forecasts", "alerts">>

\* cleanup_expired_documents at clock t on the four collections; the store
\* raises at the fails_at-th collection of the loop (0: at none), which ends
\* the run
cleanup_expired_documents(t, collections, fails_at) ==
    LET reached(namespace) ==
            \E n \in 1..Len(SweepOrder) :
                SweepOrder[n] = namespace /\ (fails_at = 0 \/ n < fails_at)
        after == [namespace \in Namespaces |->
                    IF reached(namespace)
                    THEN DeleteDocs(collections[namespace],
                                    expired_docs(collections[namespace], t))
                    ELSE collections[namespace]]
    IN  [raised |-> fails_at # 0,
         collections |-> after,
         deleted |-> Cardinality({namespace \in Namespaces :
                        DOMAIN after[namespace] # DOMAIN collections[namespace]})]

\* startupEvent: the sweep runs once, inside a try, before the service
\* takes requests
Startup(fails_at) ==
    /\ pc = "startup"
    /\ LET out == cleanup_expired_documents(now,
                      [namespace \in Namespaces |-> Collection(namespace)], fails_at)
       IN  /\ coordinates' = out.collections["coordinates"]
           /\ gridpoints' = out.collections["gridpoints"]
           /\ forecasts' = out.collections["forecasts"]
           /\ alerts' = out.collections["alerts"]
           /\ lastCall' = [called |-> TRUE, function |-> "cleanup_expired_documents",
                           time |-> now, raised |-> out.raised, deleted |-> out.deleted]
    /\ pc' = "serving"
    /\ UNCHANGED <<now, model, coords, i, distinct_points, filtered, fetched, returned,
                   resolved, lookups, history, merging, args, inflight, lastAlerts, searches,
                   lastSearch>>

\* The store outlives the process: when the process starts it holds what
\* earlier runs and other instances wrote, a saved search among it.
InitSweep ==
    /\ now = 0
    /\ model = FALSE
    /\ pc = "startup"
    /\ coords = <<>>
    /\ i = 1
    /\ distinct_points = <<>>
    /\ filtered = NotFiltered
    /\ fetched = <<>>
    /\ returned = <<>>
    /\ resolved = <<>>
    /\ lookups = 0
    /\ lastPoints = NoCall
    /\ first_result = EmptyCollection
    /\ lastForecast = NoCall
    /\ lastGet = NoCall
    /\ periods = <<>>
    /\ lastMerge = NoCall
    /\ args = <<>>
    /\ lastCall = NoCall
    /\ lastAlerts = NoCall
    /\ searches = create_search(EmptyCollection, "s1", "A", "t1", 0).collection
    /\ lastSearch = NoCall
    /\ inflight = <<>>
    /\ \/ ColdStore
       \/ /\ coordinates = Undated("coordinates")
          /\ gridpoints = Undated("gridpoints")
          /\ forecasts = Undated("forecasts")
          /\ alerts = Undated("alerts")

\* what the store can raise at
SweepFailures == 0..Len(SweepOrder)

NextSweep ==
    \/ Tick
    \/ \E namespace \in Namespaces, ttl \in StoreTTLs : StoreSet(namespace, ttl)
    \/ \E fails_at \in SweepFailures : Startup(fails_at)

\* entries are written and time passes, before and after the one sweep of
\* the process
SpecSweep == InitSweep /\ [][NextSweep]_vars

\* the startup event runs once the process has started, and time passes
SpecSweepFair ==
    /\ InitSweep
    /\ [][NextSweep]_vars
    /\ WF_vars(Tick)
    /\ WF_vars(\E fails_at \in SweepFailures : Startup(fails_at))

\* ------------------------------------------- gets, sets and the sweep, racing
\* A get reads the document and, in a second call to the store, deletes it
\* when it found it expired; the sweep queries a collection and then deletes
\* the documents of the result one by one.  Between the two calls other
\* requests and other instances of the service reach the store.
\* inflight is [reader, sweep]: reader is <<>> or <<namespace>> for a get that
\* has found its document expired and is about to delete it; sweep is where
\* a running sweep stands.
NoSweep == [at |-> 0, queried |-> FALSE, time |-> 0, expired_docs |-> {}]

\* doc = doc_ref.get() and the expiry check of the namespace's get
GetRead(namespace) ==
    /\ inflight.reader = <<>>
    /\ LET out == StoreGetCall(namespace, Collection(namespace), now)
       IN  inflight' = [inflight EXCEPT !.reader =
                           IF out.collection # Collection(namespace)
                           THEN <<namespace>> ELSE <<>>]
    /\ UNCHANGED <<now, model, store, request, history, merging, args, lastCall,
                   lastAlerts, searches, lastSearch>>

\* doc_ref.delete() of that get
GetDelete ==
    /\ inflight.reader # <<>>
    /\ LET namespace == inflight.reader[1]
       IN  StoreAfter(namespace, DeleteDoc(Collection(namespace), DocId(namespace)))
    /\ inflight' = [inflight EXCEPT !.reader = <<>>]
    /\ UNCHANGED <<now, model, request, history, merging, args, lastCall,
                   lastAlerts, searches, lastSearch>>

\* cleanup_expired_documents begins: now = datetime.now(timezone.utc)
SweepStart ==
    /\ inflight.sweep.at = 0
    /\ inflight' = [inflight EXCEPT !.sweep =
                       [at |-> 1, queried |-> FALSE, time |-> now, expired_docs |-> {}]]
    /\ UNCHANGED <<now, model, store, request, history, merging, args, lastCall,
                   lastAlerts, searches, lastSearch>>

\* the query on the collection the sweep has come to
SweepQuery ==
    /\ inflight.sweep.at \in 1..Len(SweepOrder)
    /\ ~inflight.sweep.queried
    /\ inflight' = [inflight EXCEPT
                       !.sweep.queried = TRUE,
                       !.sweep.expired_docs =
                           expired_docs(Collection(SweepOrder[inflight.sweep.at]),
                                        inflight.sweep.time)]
    /\ UNCHANGED <<now, model, store, request, history, merging, args, lastCall,
                   lastAlerts, searches, lastSearch>>

\* doc.reference.delete() for the documents of the query's result
SweepDelete ==
    /\ inflight.sweep.at \in 1..Len(SweepOrder)
    /\ inflight.sweep.queried
    /\ LET namespace == SweepOrder[inflight.sweep.at]
       IN  StoreAfter(namespace,
               DeleteDocs(Collection(namespace), inflight.sweep.expired_docs))
    /\ inflight' = [inflight EXCEPT !.sweep.at = @ + 1, !.sweep.queried = FALSE,
                                    !.sweep.expired_docs = {}]
    /\ UNCHANGED <<now, model, request, history, merging, args, lastCall,
                   lastAlerts, searches, lastSearch>>

\* InitRest leaves nothing in flight; a racing store starts with a reader
\* and a sweep that have not begun
InitRacing ==
    /\ now = 0
    /\ model = FALSE
    /\ pc = "idle"
    /\ coords = <<>>
    /\ i = 1
    /\ distinct_points = <<>>
    /\ filtered = NotFiltered
    /\ fetched = <<>>
    /\ returned = <<>>
    /\ resolved = <<>>
    /\ lookups = 0
    /\ lastPoints = NoCall
    /\ first_result = EmptyCollection
    /\ lastForecast = NoCall
    /\ lastGet = NoCall
    /\ periods = <<>>
    /\ lastMerge = NoCall
    /\ args = <<>>
    /\ lastCall = NoCall
    /\ lastAlerts = NoCall
    /\ searches = EmptyCollection
    /\ lastSearch = NoCall
    /\ ColdStore
    /\ inflight = [reader |-> <<>>, sweep |-> NoSweep]

NextRacing ==
    \/ Tick
    \/ \E namespace \in Namespaces, ttl \in StoreTTLs : StoreSet(namespace, ttl)
    \/ \E namespace \in Namespaces : GetRead(namespace)
    \/ GetDelete
    \/ SweepStart
    \/ SweepQuery
    \/ SweepDelete

\* gets, sets and one sweep on the four collections, their calls to the
\* store interleaved
SpecRacing == InitRacing /\ [][NextRacing]_vars

\* ------------------------------------------------ two getPoints calls, racing
\* Two requests resolve the coordinate "1.2345", "-9.5" at once.  Each call
\* reaches the store and the weather service in separate steps, and the
\* steps of the two interleave.  inflight[r] is where request r stands and
\* what it holds: the clock it read on entry, the answer of its lookup, the
\* documents it wrote and the point it returned.  The race is over within
\* seconds while entries live for hours: the clock stands still.
Racers == {1, 2}

RaceLatitude == truncateCoordinate(Lat12345)
RaceLongitude == truncateCoordinate(Lon95)
RaceKey == create_coordinate_doc_id(RaceLatitude, RaceLongitude)

NoResponse == PointsResponse("none", {}, "", 0, 0, <<>>, NoMaxAge)

NotBegun ==
    [at |-> "idle", start |-> 0, response |-> NoResponse, point |-> EmptyPoint,
     requests |-> 0, store_failed |-> FALSE, wrote_coordinate |-> <<>>,
     wrote_url |-> <<>>]

\* the answers of the weather service during the race: a failure, or the
\* grid cell with the default or a twelve-hour lifetime
RaceResponses ==
    {PointsResponse("not_ok", {}, "", 0, 0, <<>>, NoMaxAge)}
    \cup {PointsOk(RaceLatitude, RequiredFields, GridOf(RaceLatitude).gridId, cc) :
            cc \in {NoMaxAge, MaxAge(TickSeconds)}}

\* request r moves on, and nothing but the store and inflight changes
RaceStep(r, moved) ==
    /\ inflight' = [inflight EXCEPT ![r] = moved]
    /\ UNCHANGED <<now, model, forecasts, alerts, request, history, merging, args,
                   lastCall, lastAlerts, searches, lastSearch>>

\* getPoints is entered: now = datetime.now(timezone.utc)
RaceBegin(r) ==
    /\ inflight[r].at = "idle"
    /\ RaceStep(r, [inflight[r] EXCEPT !.at = "get", !.start = now])
    /\ UNCHANGED <<coordinates, gridpoints>>

\* get_coordinate_to_gridpoints reads the document: a hit returns its point
RaceRead(r) ==
    /\ inflight[r].at = "get"
    /\ LET cached == get_coordinate_to_gridpoints(coordinates, RaceLatitude,
                         RaceLongitude, now)
       IN  RaceStep(r,
               IF cached.data # <<>>
               THEN [inflight[r] EXCEPT !.at = "done",
                        !.point = Point(cached.data[1].gridId, str(cached.data[1].gridX),
                                        str(cached.data[1].gridY))]
               ELSE IF cached.collection # coordinates
               THEN [inflight[r] EXCEPT !.at = "evict"]
               ELSE [inflight[r] EXCEPT !.at = "fetch"])
    /\ UNCHANGED <<coordinates, gridpoints>>

\* get_coordinate_to_gridpoints deletes the document it found expired
RaceEvict(r) ==
    /\ inflight[r].at = "evict"
    /\ coordinates' = DeleteDoc(coordinates, RaceKey)
    /\ RaceStep(r, [inflight[r] EXCEPT !.at = "fetch"])
    /\ UNCHANGED gridpoints

\* the point lookup and the validation of its answer
RaceFetch(r, response) ==
    /\ inflight[r].at = "fetch"
    /\ RaceStep(r,
           IF response.kind = "ok" /\ response.fields = RequiredFields
           THEN [inflight[r] EXCEPT !.at = "store_coordinate", !.response = response,
                                    !.requests = @ + 1]
           ELSE [inflight[r] EXCEPT !.at = "done", !.response = response,
                                    !.requests = @ + 1])
    /\ UNCHANGED <<coordinates, gridpoints>>

\* set_coordinate_to_gridpoints, which the store may fail
RaceStoreCoordinate(r, fails) ==
    /\ inflight[r].at = "store_coordinate"
    /\ LET response == inflight[r].response
           stored == set_coordinate_to_gridpoints(coordinates, RaceLatitude,
                         RaceLongitude, response.gridId, str(response.gridX),
                         str(response.gridY),
                         PointsExpiresAt(inflight[r].start, response.cache_control))
       IN  IF fails
           THEN /\ RaceStep(r, [inflight[r] EXCEPT !.at = "done", !.store_failed = TRUE])
                /\ UNCHANGED coordinates
           ELSE /\ RaceStep(r, [inflight[r] EXCEPT !.at = "store_url",
                                   !.wrote_coordinate = <<stored[RaceKey]>>])
                /\ coordinates' = stored
    /\ UNCHANGED gridpoints

\* a variant that leaves a forecast-URL entry it finds in place
RaceStoreUrl_unless_present(r, fails) ==
    /\ inflight[r].at = "store_url"
    /\ LET response == inflight[r].response
           point == Point(response.gridId, str(response.gridX), str(response.gridY))
           doc_id == create_gridpoint_doc_id(point.grid_id, point.grid_x, point.grid_y)
           stored == IF doc_id \in DOMAIN gridpoints THEN gridpoints
                     ELSE set_gridpoints_to_forecast_url(gridpoints, point.grid_id,
                              point.grid_x, point.grid_y, response.forecastHourly,
                              PointsExpiresAt(inflight[r].start, response.cache_control))
       IN  IF fails
           THEN /\ RaceStep(r, [inflight[r] EXCEPT !.at = "done", !.store_failed = TRUE])
                /\ UNCHANGED gridpoints
           ELSE /\ RaceStep(r, [inflight[r] EXCEPT !.at = "done", !.point = point,
                                   !.wrote_url = <<stored[doc_id]>>])
                /\ gridpoints' = stored
    /\ UNCHANGED coordinates

\* set_gridpoints_to_forecast_url, and the point is returned
RaceStoreUrl(r, fails) ==
    /\ inflight[r].at = "store_url"
    /\ LET response == inflight[r].response
           point == Point(response.gridId, str(response.gridX), str(response.gridY))
           doc_id == create_gridpoint_doc_id(point.grid_id, point.grid_x, point.grid_y)
           stored == set_gridpoints_to_forecast_url(gridpoints, point.grid_id,
                         point.grid_x, point.grid_y, response.forecastHourly,
                         PointsExpiresAt(inflight[r].start, response.cache_control))
       IN  IF fails
           THEN /\ RaceStep(r, [inflight[r] EXCEPT !.at = "done", !.store_failed = TRUE])
                /\ UNCHANGED gridpoints
           ELSE /\ RaceStep(r, [inflight[r] EXCEPT !.at = "done", !.point = point,
                                   !.wrote_url = <<stored[doc_id]>>])
                /\ gridpoints' = stored
    /\ UNCHANGED coordinates

\* the store is empty, or holds what a request at time 0 left for twelve
\* hours; the two requests arrive then or a day later
InitRace ==
    /\ now \in {0, MaxTicks * TickSeconds}
    /\ model = FALSE
    /\ pc = "idle"
    /\ coords = <<>>
    /\ i = 1
    /\ distinct_points = <<>>
    /\ filtered = NotFiltered
    /\ fetched = <<>>
    /\ returned = <<>>
    /\ resolved = <<>>
    /\ lookups = 0
    /\ lastPoints = NoCall
    /\ first_result = EmptyCollection
    /\ lastForecast = NoCall
    /\ lastGet = NoCall
    /\ periods = <<>>
    /\ lastMerge = NoCall
    /\ args = <<>>
    /\ lastCall = NoCall
    /\ lastAlerts = NoCall
    /\ searches = EmptyCollection
    /\ lastSearch = NoCall
    /\ forecasts = EmptyCollection
    /\ alerts = EmptyCollection
    /\ LET earlier == getPoints(RaceLatitude, RaceLongitude, 0, EmptyCollection,
                          EmptyCollection,
                          PointsEnv(FALSE,
                              PointsOk(RaceLatitude, RequiredFields,
                                  GridOf(RaceLatitude).gridId, MaxAge(TickSeconds)),
                              FALSE, FALSE))
       IN  \/ coordinates = EmptyCollection /\ gridpoints = EmptyCollection
           \/ coordinates = earlier.coordinates /\ gridpoints = earlier.gridpoints
    /\ inflight = [r \in Racers |-> NotBegun]

NextRace ==
    \E r \in Racers :
        \/ RaceBegin(r)
        \/ RaceRead(r)
        \/ RaceEvict(r)
        \/ \E response \in RaceResponses : RaceFetch(r, response)
        \/ \E fails \in BOOLEAN : RaceStoreCoordinate(r, fails)
        \/ \E fails \in BOOLEAN : RaceStoreUrl(r, fails)

\* the steps of two getPoints calls for one coordinate, in any order
SpecRace == InitRace /\ [][NextRace]_vars

\* ================================================================== claims
\* the forecast stage of the request is over
ForecastStageOver == pc \in {"fanin", "done", "responded"}

\* how many times getForecast was called with point
FetchCount(point) == Cardinality({n \in 1..Len(fetched) : fetched[n] = point})

ObservedPoints == {coords[n].point : n \in 1..Len(coords)}

\* C1: a getPoints call that finds no entry for its normalized coordinate
\* issues exactly one upstream grid lookup; a call made before the stored
\* expiresAt of the entry issues none and returns the point the first call
\* returned.
C1_CacheAside ==
    lastPoints.called /\ ~lastPoints.raised =>
        /\ ~lastPoints.entry => lastPoints.requests = 1
        /\ lastPoints.fresh =>
              /\ lastPoints.requests = 0
              /\ lastPoints.key \in DOMAIN first_result
              /\ lastPoints.point = first_result[lastPoints.key]

\* C3: in one getWeather call the forecast stage calls getForecast exactly
\* once for every distinct non-empty point observed among the coordinates,
\* and for nothing else (never once per coordinate).
C3_Deduplication ==
    ForecastStageOver =>
        /\ \A point \in ObservedPoints :
              FetchCount(point) =
                  IF point.grid_id # "" /\ point.grid_x # "" /\ point.grid_y # ""
                  THEN 1 ELSE 0
        /\ \A n \in 1..Len(fetched) : fetched[n] \in ObservedPoints

\* two coordinates share one resolved point and one fetch served both
C3_Witness ==
    /\ pc = "done"
    /\ Len(coords) = 2
    /\ coords[1].point = coords[2].point
    /\ coords[1].point # EmptyPoint
    /\ Len(fetched) = 1

\* C4: a coordinate whose grid resolution failed ends getWeather with the
\* empty Forecast, and filterWeatherData completes for the list.
C4_EmptyForecastForUnresolved ==
    /\ pc \in {"done", "responded"} =>
          \A n \in 1..Len(coords) :
             coords[n].point = EmptyPoint => coords[n].forecasts = EmptyForecast
    /\ filtered.done /\ (\E n \in 1..Len(coords) : coords[n].point = EmptyPoint)
          => ~filtered.raised

\* C5: whatever fails upstream or in the store for a coordinate, getPoints
\* returns the empty point without raising and getWeather completes.
C5_BatchCompletes == pc = "raised" => filtered.done

\* the value is a Forecast object: it has an elevation and a period list
IsForecast(value) == DOMAIN value = {"elevation", "periods"}

\* the failures after which getForecast has no forecast to hand back
EmptyingFailures == {"url_lookup", "forecast_request", "merge", "construction"}

\* C6 as stated: getForecast never raises and returns a Forecast, the empty
\* Forecast whenever any of its steps failed.
C6_EmptyOnAnyFailure ==
    lastForecast.called =>
        /\ ~lastForecast.raised
        /\ IsForecast(lastForecast.forecast)
        /\ lastForecast.failures # {} => lastForecast.forecast = EmptyForecast

\* C6: getForecast never raises and returns a Forecast whatever step failed;
\* it is the empty Forecast when the URL lookup, the forecast request, the
\* merge or the construction from the fetched document failed (a failed
\* cache read, construction from the cached document, layer request or
\* cache write does not by itself empty the result).
C6_NeverPropagates ==
    lastForecast.called =>
        /\ ~lastForecast.raised
        /\ IsForecast(lastForecast.forecast)
        /\ lastForecast.failures \cap EmptyingFailures # {}
              => lastForecast.forecast = EmptyForecast

\* a call whose cache read raised and whose cache write raised returned the
\* fetched forecast
C6_Witness ==
    /\ lastForecast.called
    /\ {"cache_read", "cache_write"} \subseteq lastForecast.failures
    /\ IsForecast(lastForecast.forecast)
    /\ lastForecast.forecast # EmptyForecast

\* C7: getForecast is never called with a point that is empty.
C7_NoFetchForUnresolved ==
    \A n \in 1..Len(fetched) :
        fetched[n].grid_id # "" /\ fetched[n].grid_x # "" /\ fetched[n].grid_y # ""

\* a list with an unresolved and a resolved coordinate went through the
\* forecast stage, and a fetch was made
C7_Witness ==
    /\ pc = "done"
    /\ \E n \in 1..Len(coords) : coords[n].point = EmptyPoint
    /\ \E n \in 1..Len(coords) : coords[n].point # EmptyPoint
    /\ Len(fetched) >= 1
\* C8: when getForecast writes a forecast to the cache while a scoring model
\* is loaded, every written period that has a temperature carries a ride
\* score.
C8_ScoredBeforeCached ==
    lastForecast.called /\ lastForecast.wrote /\ model =>
        \A n \in 1..Len(lastForecast.written[1].periods) :
            lastForecast.written[1].periods[n].temperature # Absent
                => lastForecast.written[1].periods[n].ride_score # Absent

\* C9: whenever getForecast writes to the forecast cache, the stored period
\* list is the fetched one with the supplementary layers already merged in,
\* and it is the period list returned to the caller.
C9_EnrichedBeforeCached ==
    lastForecast.called /\ lastForecast.wrote =>
        /\ lastForecast.written[1].periods =
              weather_merge_gridpoint_data(lastForecast.fetched_periods,
                                           lastForecast.layers)
        /\ lastForecast.forecast.periods = lastForecast.written[1].periods

\* the latest get found a document whose expiresAt lies before its time
ReadPastExpiry ==
    /\ lastGet.called
    /\ lastGet.existed
    /\ lastGet.expiresAt # Absent
    /\ lastGet.t > lastGet.expiresAt

\* the latest get found a document that has no expiresAt
ReadUndated == lastGet.called /\ lastGet.existed /\ lastGet.expiresAt = Absent

\* C2: in each of the four cache collections, a get made later than the
\* entry's expiresAt, or on an entry without expiresAt, returns a miss and
\* leaves the entry deleted.
C2_ExpiredIsMiss ==
    \A namespace \in Namespaces :
        lastGet.called /\ lastGet.namespace = namespace
            /\ (ReadPastExpiry \/ ReadUndated) =>
                /\ lastGet.data = <<>>
                /\ ~lastGet.remains

\* an alerts entry written earlier was read after its expiresAt
C2_Witness == ReadPastExpiry /\ lastGet.namespace = "alerts" /\ lastGet.t > 0

\* the layer has an entry for the start time: the same timestamp, or one
\* in the same calendar hour when both parse
HasMatch(start_time, data_map) ==
    \E n \in 1..Len(data_map) :
        \/ data_map[n].ts = start_time
        \/ /\ start_time.ok
           /\ data_map[n].ts.ok
           /\ data_map[n].ts.hour = start_time.hour

\* the period field each layer is merged into
FieldOf ==
    [windGust |-> "windGust", visibility |-> "visibility",
     apparentTemperature |-> "apparent_temperature", relativeHumidity |-> "humidity"]

\* C10: merging an empty layer set leaves every period unchanged; merging
\* the layer set of the previous merge again changes nothing; a merge never
\* clears windGust, visibility, apparent_temperature or humidity, changes
\* one of them only when its layer has a match for the period, and touches
\* nothing else.
C10_MergeAdditiveIdempotent ==
    lastMerge.called =>
        /\ lastMerge.layers = empty_result => lastMerge.after = lastMerge.before
        /\ lastMerge.repeated => lastMerge.after = lastMerge.before
        /\ Len(lastMerge.after) = Len(lastMerge.before)
        /\ \A n \in 1..Len(lastMerge.before) :
              /\ \A layer \in LayerNames :
                    /\ lastMerge.before[n][FieldOf[layer]] # Absent
                          => lastMerge.after[n][FieldOf[layer]] # Absent
                    /\ lastMerge.after[n][FieldOf[layer]] # lastMerge.before[n][FieldOf[layer]]
                          => HasMatch(lastMerge.before[n].startTime, lastMerge.layers[layer])
              /\ \A field \in DOMAIN lastMerge.before[n] \ {FieldOf[layer] : layer \in LayerNames} :
                    lastMerge.after[n][field] = lastMerge.before[n][field]

\* a non-empty layer set was merged a second time into periods of which one
\* got a visibility from it and one kept the windGust it had before
C10_Witness ==
    /\ lastMerge.called
    /\ lastMerge.repeated
    /\ lastMerge.layers = SomeLayers
    /\ \E n \in 1..Len(lastMerge.after) : lastMerge.after[n].visibility # Absent
    /\ \E n \in 1..Len(lastMerge.after) :
          /\ lastMerge.after[n].windGust = 5
          /\ ~HasMatch(lastMerge.after[n].startTime, SomeLayers.windGust)

\* the periods of the latest score_periods call that have a temperature
\* float() accepts
Scorable ==
    {n \in 1..Len(lastCall.before) :
        lastCall.before[n].temperature \notin {Absent, Unparsable}}

\* C11: whatever the model predicts (below 0, within range, above 100),
\* the ride_score score_periods stores on a period lies in [0, 100] (here
\* in tenths, 0..1000).
C11_ScoreClamped ==
    lastCall.called /\ lastCall.loaded /\ lastCall.predictor.kind # "raises" =>
        \A n \in Scorable :
            /\ lastCall.after[n].ride_score >= 0
            /\ lastCall.after[n].ride_score <= 1000

\* one batch got a prediction below 0, one within range and one above 100,
\* stored as 0, 70 and 100
C11_Witness ==
    /\ lastCall.called
    /\ lastCall.loaded
    /\ lastCall.predictor.kind = "by_temp"
    /\ {lastCall.after[n].ride_score : n \in Scorable} = {0, 700, 1000}

\* C18: with no model loaded score_periods leaves every period as it was;
\* with a model, a period without temperature gets no ride_score and its
\* siblings are still scored, each with the prediction for its own
\* temperature; when the prediction raises, no period gets a ride_score and
\* nothing is raised.  No other field of a period changes.
C18_UnscoredSemantics ==
    lastCall.called =>
        /\ ~lastCall.raised
        /\ Len(lastCall.after) = Len(lastCall.before)
        /\ ~lastCall.loaded => lastCall.after = lastCall.before
        /\ lastCall.predictor.kind = "raises" => lastCall.after = lastCall.before
        /\ \A n \in 1..Len(lastCall.before) :
              /\ [lastCall.after[n] EXCEPT !.ride_score = Absent]
                    = [lastCall.before[n] EXCEPT !.ride_score = Absent]
              /\ lastCall.before[n].temperature = Absent
                    => lastCall.after[n].ride_score = lastCall.before[n].ride_score
              /\ lastCall.loaded /\ n \in Scorable
                    => /\ lastCall.predictor.kind = "const"
                          => lastCall.after[n].ride_score * 10 - lastCall.predictor.value
                                \in (-5)..5
                                \/ lastCall.after[n].ride_score \in {0, 1000}
                       /\ lastCall.predictor.kind = "by_temp"
                          => lastCall.after[n].ride_score
                                = IF lastCall.before[n].temperature < 0 THEN 0
                                  ELSE IF lastCall.before[n].temperature > 100 THEN 1000
                                  ELSE 10 * lastCall.before[n].temperature

\* a loaded model scored a batch in which a period without temperature
\* stands before two periods with different temperatures
C18_Witness ==
    /\ lastCall.called
    /\ lastCall.loaded
    /\ lastCall.predictor.kind = "by_temp"
    /\ Len(lastCall.before) = 3
    /\ lastCall.before[1].temperature = Absent
    /\ lastCall.after[1].ride_score = Absent
    /\ lastCall.after[2].ride_score = 700
    /\ lastCall.after[3].ride_score = 1000

\* the offsets 1..4 after the arrival period that lie within the list and
\* whose period has a score more than 25 points above the arrival score
BetterOffsets ==
    {off \in 1..4 :
        /\ args.arrival_index + off + 1 <= Len(args.periods)
        /\ args.periods[args.arrival_index + off + 1].ride_score # Absent
        /\ args.periods[args.arrival_index + off + 1].ride_score
              - args.periods[args.arrival_index + 1].ride_score > 250}

\* the arrival index is a position of the list whose period has a score
ArrivalScored ==
    /\ args.arrival_index >= 0
    /\ args.arrival_index < Len(args.periods)
    /\ args.periods[args.arrival_index + 1].ride_score # Absent

\* C12: scan_break returns a recommendation exactly when the arrival period
\* has a score and a period 1..4 hours after it, within the list, has a
\* score more than 25 points higher; the recommendation waits for a period
\* in that range that clears the threshold.
C12_BreakThreshold ==
    lastCall.called =>
        /\ lastCall.result # <<>> <=> ArrivalScored /\ BetterOffsets # {}
        /\ lastCall.result # <<>> => lastCall.result[1].wait_hours \in BetterOffsets

\* arrival at 50, 75 one hour later (exactly 25 more), 80 two hours later:
\* wait 2
C12_Witness ==
    /\ lastCall.called
    /\ lastCall.result # <<>>
    /\ lastCall.result[1].arrival_score = 500
    /\ lastCall.result[1].wait_hours = 2
    /\ args.periods[args.arrival_index + 2].ride_score = 750

\* the average score of leaving now: every waypoint w (from 0) at its period w
LeaveNowAverage ==
    average_score([w \in 1..Len(args.all_waypoint_periods) |->
                      args.all_waypoint_periods[w][w].ride_score])

\* C13: whenever scan_departure_window returns a plan, its improvement is
\* not negative: the average score of the golden window is never below the
\* average score of leaving at start hour 0, and the improvement is their
\* difference.
C13_ImprovementNotNegative ==
    lastCall.called /\ lastCall.result # <<>> =>
        /\ lastCall.result[1].improvement >= 0
        /\ lastCall.result[1].golden_window.average_score >= LeaveNowAverage
        /\ lastCall.result[1].improvement =
              lastCall.result[1].golden_window.average_score - LeaveNowAverage

\* a plan for two waypoints whose best departure is one hour from now, at
\* an average above the one of leaving now
C13_Witness ==
    /\ lastCall.called
    /\ lastCall.result # <<>>
    /\ Len(args.all_waypoint_periods) = 2
    /\ lastCall.result[1].improvement > 0
    /\ lastCall.result[1].golden_window.departure_time = TS(2, 0, 0)

\* the number of characters after the "." of the argument, 0 without one
FractionLength ==
    IF \E p \in 1..Len(args) : args[p] = "."
    THEN Len(args) - (CHOOSE p \in 1..Len(args) : args[p] = ".")
    ELSE 0

\* C14: truncateCoordinate returns the string unchanged when it has no
\* fractional part or at most 4 fractional digits, and otherwise the string
\* cut after its 4th fractional digit, whatever the digits cut off are;
\* truncating the result again returns the result.
C14_TruncateIdempotent ==
    lastCall.called =>
        /\ ~lastCall.raised
        /\ FractionLength <= 4 => lastCall.result = args
        /\ FractionLength > 4 =>
              lastCall.result = SubSeq(args, 1, Len(args) - FractionLength + 4)
        /\ lastCall.again = lastCall.result

\* "37.425812" becomes "37.4258"
C14_Witness ==
    /\ lastCall.called
    /\ args = <<"3", "7", ".", "4", "2", "5", "8", "1", "2">>
    /\ lastCall.result = <<"3", "7", ".", "4", "2", "5", "8">>
    /\ lastCall.again = lastCall.result

\* the coordinates of the request whose forecasts the step assigns
Assigned ==
    {n \in 1..Len(coords) :
        Len(coords') = Len(coords) /\ coords'[n].forecasts # coords[n].forecasts}

\* C15: a step that calls getForecast is taken only when getPoints has
\* returned for every coordinate of the list, and a step that assigns a
\* coordinate's forecasts assigns the entry of the result table for its
\* point, after the getForecast call for that point has returned.
C15_BarrierAndFanIn ==
    [][/\ fetched' # fetched =>
              {resolved[n] : n \in 1..Len(resolved)} = 1..Len(coords)
       /\ \A n \in Assigned :
              /\ {resolved[m] : m \in 1..Len(resolved)} = 1..Len(coords)
              /\ coords[n].point \in DictKeys(distinct_points)
              /\ coords'[n].forecasts = DictValue(distinct_points, coords[n].point)
              /\ is_not_empty(coords[n].point) =>
                    \E m \in 1..Len(fetched) : fetched[m] = coords[n].point]_vars

\* two coordinates were resolved to different grid points, both points were
\* fetched, and both coordinates were given a forecast with periods
C15_Witness ==
    /\ pc = "done"
    /\ Len(coords) = 2
    /\ Len(resolved) = 2
    /\ Len(fetched) = 2
    /\ coords[1].point # coords[2].point
    /\ \A n \in 1..2 : IsForecast(coords[n].forecasts) /\ coords[n].forecasts.periods # <<>>

\* the expiry a header asks for: the call's time plus max-age seconds when
\* the header has a max-age that is a number, else plus the default hours
ExpectedExpiry(default_hours) ==
    IF lastCall.cache_control.has /\ lastCall.cache_control.parses
    THEN lastCall.time + lastCall.cache_control.seconds
    ELSE lastCall.time + default_hours * 3600

\* C16: after a getPoints call that looked the grid point up and returned
\* it, the coordinate's entry and the grid point's forecast-URL entry both
\* expire at the call's time plus max-age seconds, or plus 24 hours without
\* a usable max-age; after a getForecast call that fetched and stored a
\* forecast, the stored forecast expires at the call's time plus max-age
\* seconds, or plus 3 hours.
C16_ExpiryFromMaxAge ==
    /\ /\ lastCall.called
       /\ lastCall.function = "getPoints"
       /\ lastCall.requests = 1
       /\ lastCall.point # EmptyPoint
       => LET url_key == create_gridpoint_doc_id(lastCall.point.grid_id,
                             lastCall.point.grid_x, lastCall.point.grid_y)
          IN  /\ lastCall.key \in DOMAIN coordinates
              /\ url_key \in DOMAIN gridpoints
              /\ coordinates[lastCall.key].expiresAt = ExpectedExpiry(24)
              /\ gridpoints[url_key].expiresAt = ExpectedExpiry(24)
    /\ /\ lastCall.called
       /\ lastCall.function = "getForecast"
       /\ lastCall.wrote
       => /\ lastCall.key \in DOMAIN forecasts
          /\ forecasts[lastCall.key].expiresAt = ExpectedExpiry(3)

\* a lookup made twelve hours in, answered with a max-age, left both entries
\* expiring at that time plus the max-age
C16_Witness ==
    /\ lastCall.called
    /\ lastCall.function = "getPoints"
    /\ lastCall.requests = 1
    /\ lastCall.point # EmptyPoint
    /\ lastCall.time = TickSeconds
    /\ lastCall.cache_control = MaxAge(TickSeconds)
    /\ coordinates[lastCall.key].expiresAt = 2 * TickSeconds

\* the latest call was a getPoints call whose lookup was answered with a
\* non-success status, without 'properties', or without one of the four
\* required fields
LookupRejected ==
    /\ lastCall.called
    /\ lastCall.function = "getPoints"
    /\ lastCall.requests = 1
    /\ \/ lastCall.response_kind \in {"not_ok", "no_properties"}
       \/ lastCall.response_kind = "ok"
          /\ lastCall.response_fields # {"gridId", "gridX", "gridY", "forecastHourly"}

\* C17 as stated: after a rejected lookup getPoints has returned the empty
\* point and both namespaces are as they were before the call.
C17_NamespacesUnchanged ==
    LookupRejected =>
        /\ ~lastCall.raised
        /\ lastCall.point = Point("", "", "")
        /\ coordinates = lastCall.coordinates_before
        /\ gridpoints = lastCall.gridpoints_before

\* C17: after a rejected lookup getPoints has returned the empty point, the
\* forecast-URL namespace is as it was before the call, and the coordinate
\* namespace has every entry it had with the same content, except that the
\* expired entry of the coordinate looked up, which the cache read deletes,
\* is gone; no entry was created.
C17_NothingCreated ==
    LookupRejected =>
        /\ ~lastCall.raised
        /\ lastCall.point = Point("", "", "")
        /\ gridpoints = lastCall.gridpoints_before
        /\ DOMAIN coordinates \subseteq DOMAIN lastCall.coordinates_before
        /\ \A k \in DOMAIN coordinates : coordinates[k] = lastCall.coordinates_before[k]
        /\ \A k \in DOMAIN lastCall.coordinates_before \ DOMAIN coordinates :
              /\ k = lastCall.key
              /\ \/ lastCall.coordinates_before[k].expiresAt = Absent
                 \/ lastCall.coordinates_before[k].expiresAt < lastCall.time

\* a lookup answered without one of the required fields, made when the
\* coordinate's entry had expired: the entry is gone and the forecast-URL
\* entry stored with it is still there
C17_Witness ==
    /\ LookupRejected
    /\ lastCall.response_kind = "ok"
    /\ lastCall.key \in DOMAIN lastCall.coordinates_before
    /\ lastCall.key \notin DOMAIN coordinates
    /\ gridpoints # EmptyCollection
    /\ lastCall.point = EmptyPoint

\* before the latest getActiveAlerts call the coordinate had a stored list
\* whose expiry had not been reached
AlertStored ==
    /\ lastAlerts.key \in DOMAIN lastAlerts.before
    /\ lastAlerts.before[lastAlerts.key].expiresAt # Absent
    /\ lastAlerts.time < lastAlerts.before[lastAlerts.key].expiresAt

\* C19: a getActiveAlerts call that fetched a list leaves it stored for its
\* coordinate with expiresAt 15 minutes after the call, whatever the
\* response's Cache-Control header; a call made before the expiry of a
\* stored list makes no upstream request and returns the stored list, an
\* empty one included; a call whose fetch failed returns the empty list and
\* creates or changes no entry.  Calls whose store read or write raises are
\* left aside.
C19_AlertCache ==
    lastAlerts.called /\ ~lastAlerts.env.get_alerts_fails =>
        /\ ~lastAlerts.raised
        /\ AlertStored =>
              /\ lastAlerts.requests = 0
              /\ lastAlerts.alert_list = lastAlerts.before[lastAlerts.key].alerts.json
              /\ alerts = lastAlerts.before
        /\ lastAlerts.requests = 1 /\ lastAlerts.env.response.kind = "ok"
              /\ ~lastAlerts.env.set_alerts_fails =>
              /\ lastAlerts.key \in DOMAIN alerts
              /\ alerts[lastAlerts.key].expiresAt = lastAlerts.time + 15 * 60
              /\ alerts[lastAlerts.key].alerts.json = lastAlerts.alert_list
              /\ lastAlerts.alert_list =
                    IF lastAlerts.env.response.has_features
                    THEN lastAlerts.env.response.features ELSE <<>>
        /\ lastAlerts.requests = 1 /\ lastAlerts.env.response.kind # "ok" =>
              /\ lastAlerts.alert_list = <<>>
              /\ \A k \in DOMAIN alerts :
                    k \in DOMAIN lastAlerts.before /\ alerts[k] = lastAlerts.before[k]

\* an empty list fetched with a max-age of twelve hours was stored, and a
\* call 7.5 minutes later returned it without an upstream request
C19_Witness ==
    /\ lastAlerts.called
    /\ AlertStored
    /\ lastAlerts.time = 450
    /\ lastAlerts.before[lastAlerts.key].expiresAt = 900
    /\ lastAlerts.before[lastAlerts.key].alerts.json = <<>>
    /\ lastAlerts.requests = 0
    /\ lastAlerts.alert_list = <<>>
    /\ ~lastAlerts.raised

\* the searches that, before the latest request, belonged to somebody other
\* than the user who made it
OthersSearches ==
    {d \in DOMAIN lastSearch.before : lastSearch.before[d].userId # lastSearch.user}

\* C20: a request leaves every search of another owner in place and as it
\* was, and its response carries no search of another owner; a get or a
\* delete of another owner's search is answered 403.
C20_SearchIsolation ==
    lastSearch.called =>
        /\ \A d \in OthersSearches :
              /\ d \in DOMAIN searches
              /\ searches[d] = lastSearch.before[d]
        /\ \A search \in lastSearch.body :
              search \notin {lastSearch.before[d] : d \in OthersSearches}
        /\ lastSearch.endpoint \in {"get", "delete"}
              /\ lastSearch.search_id \in OthersSearches => lastSearch.status = 403

\* the latest call was a getForecast call that got nothing from the forecast
\* cache and found no unexpired forecast-URL entry for its grid point
UrlMissing ==
    /\ lastCall.called
    /\ lastCall.function = "getForecast"
    /\ ~lastCall.hit
    /\ \/ lastCall.key \notin DOMAIN lastCall.gridpoints_before
       \/ lastCall.gridpoints_before[lastCall.key].expiresAt = Absent
       \/ lastCall.gridpoints_before[lastCall.key].expiresAt < lastCall.time

\* C21: a getForecast call that misses the forecast cache and finds the
\* forecast-URL entry absent or expired resolves the grid point again; when
\* it returns the empty Forecast for want of a URL it has made no forecast
\* or supplementary-layer request and has created or changed no entry.
C21_UrlReResolved ==
    UrlMissing =>
        /\ lastCall.point_requests >= 1
        /\ lastCall.forecast = EmptyForecast =>
              /\ lastCall.requests = 0
              /\ lastCall.gridpoint_requests = 0
              /\ ~lastCall.wrote
              /\ \A k \in DOMAIN forecasts :
                    /\ k \in DOMAIN lastCall.forecasts_before
                    /\ forecasts[k] = lastCall.forecasts_before[k]

\* the value a layer holds for a start time: that of the entry with the same
\* timestamp, else that of the first entry, in the layer's order, of the
\* same calendar hour
MatchedValue(start_time, data_map) ==
    IF \E n \in 1..Len(data_map) : data_map[n].ts = start_time
    THEN data_map[CHOOSE n \in 1..Len(data_map) : data_map[n].ts = start_time].val
    ELSE LET same == {n \in 1..Len(data_map) :
                         data_map[n].ts.ok /\ data_map[n].ts.hour = start_time.hour}
             first == CHOOSE n \in same : \A m \in same : n <= m
         IN  data_map[first].val

\* C22: for every period and every layer on its own, the period gets the
\* layer's field exactly when the layer has an entry with the period's
\* startTime or one in the same calendar hour; the value is that of the
\* entry with the same timestamp when there is one, else the first of the
\* hour in the layer's order; a period without a match keeps the field.
C22_MatchingRule ==
    lastMerge.called =>
        \A n \in 1..Len(lastMerge.before) : \A layer \in LayerNames :
            lastMerge.after[n][FieldOf[layer]] =
                IF HasMatch(lastMerge.before[n].startTime, lastMerge.layers[layer])
                THEN MatchedValue(lastMerge.before[n].startTime, lastMerge.layers[layer])
                ELSE lastMerge.before[n][FieldOf[layer]]

\* one merge gave a period starting at 10:00 the windGust of the 10:00 entry
\* that follows a 10:15 entry, gave a period starting at 10:30 the first
\* windGust of the hour, and left both without apparent_temperature
C22_Witness ==
    /\ lastMerge.called
    /\ lastMerge.layers = ExactAfterSameHourLayers
    /\ Len(lastMerge.after) = 2
    /\ lastMerge.before[1].startTime = TS(10, 0, 0)
    /\ lastMerge.before[1].windGust = 5
    /\ lastMerge.after[1].windGust = 30
    /\ lastMerge.before[2].startTime = TS(10, 30, 0)
    /\ lastMerge.after[2].windGust = 20
    /\ lastMerge.after[2].visibility = 9
    /\ lastMerge.after[1].apparent_temperature = Absent

\* the offsets 1..4 after the arrival period that lie within the list and
\* whose period has a score
ScoredOffsets ==
    {off \in 1..4 :
        /\ args.arrival_index + off + 1 <= Len(args.periods)
        /\ args.periods[args.arrival_index + off + 1].ride_score # Absent}

\* the period off hours after the arrival period
PeriodAfter(off) == args.periods[args.arrival_index + off + 1]

\* what a recommendation of scan_break reports
C23_Reported ==
    lastCall.called /\ lastCall.result # <<>> =>
        LET suggestion == lastCall.result[1]
        IN  /\ suggestion.wait_hours \in ScoredOffsets
            /\ \A off \in ScoredOffsets :
                  /\ PeriodAfter(off).ride_score <= suggestion.optimized_score
                  /\ PeriodAfter(off).ride_score = suggestion.optimized_score
                        => suggestion.wait_hours <= off
            /\ suggestion.arrival_score = args.periods[args.arrival_index + 1].ride_score
            /\ suggestion.optimized_score = PeriodAfter(suggestion.wait_hours).ride_score
            /\ suggestion.optimized_start_time = PeriodAfter(suggestion.wait_hours).start_time

\* C23: a recommendation of scan_break reports the period with the highest
\* score among the scored periods 1..4 hours after arrival, the earliest of
\* them on ties: wait_hours is its offset, optimized_score and
\* optimized_start_time are its score and start time, arrival_score is the
\* arrival period's score; periods without a score are passed over, and the
\* call leaves the period list as it was.
C23_BestInWindow == []C23_Reported /\ [][args' = args]_vars

\* arrival at 50, then no score, 80, 80 and 75: wait 2 hours, for the first 80
C23_Witness ==
    /\ lastCall.called
    /\ lastCall.result # <<>>
    /\ args.arrival_index = 1
    /\ Len(args.periods) = 6
    /\ args.periods[2].ride_score = 500
    /\ args.periods[3].ride_score = Absent
    /\ args.periods[4].ride_score = 800
    /\ args.periods[5].ride_score = 800
    /\ args.periods[6].ride_score = 750
    /\ lastCall.result[1].wait_hours = 2
    /\ lastCall.result[1].optimized_start_time = TS(4, 0, 0)

\* the departure hours h of the horizon for which every waypoint w (from 0)
\* has a scored period at index h + w
ValidHours ==
    {h \in 0..(args.hours_to_scan - 1) :
        \A w \in 1..Len(args.all_waypoint_periods) :
            /\ h + w <= Len(args.all_waypoint_periods[w])
            /\ args.all_waypoint_periods[w][h + w].ride_score # Absent}

\* the average score of departing at hour h
HourAverage(h) ==
    average_score([w \in 1..Len(args.all_waypoint_periods) |->
                      args.all_waypoint_periods[w][h + w].ride_score])

\* C24: the golden window scan_departure_window reports is, among the
\* departure hours h of 0..hours_to_scan-1 at which every waypoint i has a
\* scored period at index h+i, the one of highest average score, the
\* earliest of them on ties; its departure_time is the start time of the
\* first waypoint's period h.
C24_GoldenWindow ==
    lastCall.called /\ lastCall.result # <<>> =>
        \E h \in ValidHours :
            /\ \A other \in ValidHours :
                  /\ HourAverage(other) <= HourAverage(h)
                  /\ HourAverage(other) = HourAverage(h) => h <= other
            /\ lastCall.result[1].golden_window.average_score = HourAverage(h)
            /\ lastCall.result[1].golden_window.departure_time
                  = args.all_waypoint_periods[1][h + 1].start_time

\* getWeather has returned: every coordinate with a non-empty point holds
\* what the getForecast call for its point returned, and coordinates with
\* equal points hold the same forecast
C25_FannedIn ==
    pc = "done" =>
        /\ \A n \in 1..Len(coords) :
              is_not_empty(coords[n].point) =>
                  \E m \in 1..Len(fetched) :
                      /\ fetched[m] = coords[n].point
                      /\ coords[n].forecasts = returned[m]
        /\ \A n, m \in 1..Len(coords) :
              coords[n].point = coords[m].point => coords[n].forecasts = coords[m].forecasts

\* a step of getWeather keeps the list's length and order and every
\* coordinate's latitude, longitude, eta and address
C25_Frame ==
    pc \in {"points", "forecasts", "fanin"} =>
        /\ Len(coords') = Len(coords)
        /\ \A n \in 1..Len(coords) :
              /\ coords'[n].latitude = coords[n].latitude
              /\ coords'[n].longitude = coords[n].longitude
              /\ coords'[n].eta = coords[n].eta
              /\ coords'[n].address = coords[n].address

\* C25: when getWeather returns, every coordinate with a non-empty grid
\* point has as forecasts the result getForecast returned for that point,
\* coordinates with equal grid points have the same forecast, and the call
\* has kept the list's length and order and each coordinate's latitude,
\* longitude, eta and address.
C25_GetWeatherFrame == []C25_FannedIn /\ [][C25_Frame]_vars

\* two coordinates with an eta and different points: the fetch for the
\* first point failed, the one for the second gave periods, and each
\* coordinate holds the forecast of its own point
C25_Witness ==
    /\ pc = "done"
    /\ Len(coords) = 2
    /\ coords[1].eta = EtaInPeriod
    /\ coords[1].address = <<"Main St">>
    /\ is_not_empty(coords[1].point)
    /\ is_not_empty(coords[2].point)
    /\ coords[1].point # coords[2].point
    /\ Len(returned) = 2
    /\ returned[1] = EmptyForecast
    /\ returned[2] # EmptyForecast
    /\ coords[1].forecasts = EmptyForecast
    /\ coords[2].forecasts = returned[2]

\* the entry d of collection has an expiresAt before t
ExpiredBefore(collection, d, t) ==
    collection[d].expiresAt # Absent /\ collection[d].expiresAt < t

\* the step is a run of the sweep that the store did not fail
SweepRan == pc = "startup" /\ pc' = "serving" /\ ~lastCall'.raised

\* C26: one run of cleanup_expired_documents at time now deletes every
\* entry of coordinates, gridpoints, forecasts and alerts whose expiresAt
\* is before now, deletes or changes no entry whose expiresAt is now or
\* later, and leaves the saved searches as they were.
C26_SweepFrame ==
    [][SweepRan =>
          /\ \A namespace \in Namespaces : \A d \in DOMAIN Collection(namespace) :
                IF ExpiredBefore(Collection(namespace), d, now)
                THEN d \notin DOMAIN Collection(namespace)'
                ELSE /\ d \in DOMAIN Collection(namespace)'
                     /\ Collection(namespace)'[d] = Collection(namespace)[d]
          /\ \A namespace \in Namespaces :
                DOMAIN Collection(namespace)' \subseteq DOMAIN Collection(namespace)
          /\ searches' = searches]_vars

\* the sweep has just run: it deleted from two collections, the gridpoints
\* entry expiring at this very moment and a forecasts entry expiring later
\* are still there, and so is the saved search
C26_Witness ==
    /\ pc = "serving"
    /\ lastCall.called
    /\ ~lastCall.raised
    /\ lastCall.time = now
    /\ lastCall.deleted = 2
    /\ coordinates = EmptyCollection
    /\ alerts = EmptyCollection
    /\ DocId("gridpoints") \in DOMAIN gridpoints
    /\ gridpoints[DocId("gridpoints")].expiresAt = now
    /\ DocId("forecasts") \in DOMAIN forecasts
    /\ forecasts[DocId("forecasts")].expiresAt > now
    /\ "s1" \in DOMAIN searches

\* the namespace holds its entry and the entry's expiresAt has passed
ExpiredEntry(namespace) ==
    /\ DocId(namespace) \in DOMAIN Collection(namespace)
    /\ ExpiredBefore(Collection(namespace), DocId(namespace), now)

\* C27: a cache entry whose expiresAt has passed is eventually gone, deleted
\* by the sweep, even if nothing reads it again.
C27_EventuallySwept ==
    \A namespace \in Namespaces : ExpiredEntry(namespace) ~> ~ExpiredEntry(namespace)

\* C28: no step removes an entry that is not expired: when a get or the
\* sweep has seen an expired entry and a request has since written a fresh
\* entry under the same key, the delete that follows leaves the fresh entry
\* in place.
C28_NoLostUpdate ==
    [][\A namespace \in Namespaces : \A d \in DOMAIN Collection(namespace) :
          ~is_expired(Collection(namespace)[d].expiresAt, now)
              => d \in DOMAIN Collection(namespace)']_vars

\* the id of the forecast-URL entry of the raced coordinate's grid cell
RaceGridKey ==
    create_gridpoint_doc_id(GridOf(RaceLatitude).gridId, str(GridOf(RaceLatitude).gridX),
                            str(GridOf(RaceLatitude).gridY))

\* both requests have returned after a miss, each with the complete answer
\* of its own lookup and no failure of the store
BothMissed ==
    /\ \A r \in Racers :
          /\ inflight[r].at = "done"
          /\ inflight[r].requests = 1
          /\ inflight[r].response.kind = "ok"
          /\ ~inflight[r].store_failed
    /\ \A r, q \in Racers :
          /\ inflight[r].response.gridId = inflight[q].response.gridId
          /\ inflight[r].response.gridX = inflight[q].response.gridX
          /\ inflight[r].response.gridY = inflight[q].response.gridY

\* C29: two requests that resolve one coordinate at once and both miss call
\* the weather service once each at most and return the same non-empty
\* point; when both have returned, the store holds one unexpired
\* coordinate entry and one unexpired forecast-URL entry for it, each the
\* document one of the two requests wrote.
C29_DuplicateFetchHarmless ==
    /\ \A r \in Racers : inflight[r].requests <= 1
    /\ BothMissed =>
          /\ \A r, q \in Racers : inflight[r].point = inflight[q].point
          /\ \A r \in Racers : is_not_empty(inflight[r].point)
          /\ DOMAIN coordinates = {RaceKey}
          /\ ~is_expired(coordinates[RaceKey].expiresAt, now)
          /\ \E r \in Racers : inflight[r].wrote_coordinate = <<coordinates[RaceKey]>>
          /\ DOMAIN gridpoints = {RaceGridKey}
          /\ ~is_expired(gridpoints[RaceGridKey].expiresAt, now)
          /\ \E r \in Racers : inflight[r].wrote_url = <<gridpoints[RaceGridKey]>>

\* a day after the entries were written both requests found the coordinate
\* entry expired and fetched; their answers had different lifetimes, and
\* the store keeps the coordinate entry of request 2 and the forecast-URL
\* entry of request 1
C29_Witness ==
    /\ BothMissed
    /\ now = MaxTicks * TickSeconds
    /\ inflight[1].wrote_coordinate # inflight[2].wrote_coordinate
    /\ inflight[2].wrote_coordinate = <<coordinates[RaceKey]>>
    /\ inflight[1].wrote_url = <<gridpoints[RaceGridKey]>>
    /\ inflight[1].wrote_url # inflight[2].wrote_url

\* C30: no entry of the coordinates, gridpoints or forecasts collection is
\* keyed by, or maps to, a grid point whose gridId is "", whatever the
\* point lookup answered.
C30_EmptyPointNeverStored ==
    /\ \A d \in DOMAIN coordinates : coordinates[d].gridId # ""
    /\ \A d \in DOMAIN gridpoints : d[1] # "" /\ gridpoints[d].gridId # ""
    /\ \A d \in DOMAIN forecasts : d[1] # "" /\ forecasts[d].gridId # ""

\* C31: truncateCoordinate returns a string for every string it is given,
\* one with several "." or none, the empty one, one with characters that
\* are no digits; it never raises, and the same string gives the same result.
C31_NoFailureMode ==
    lastCall.called =>
        /\ ~lastCall.raised
        /\ lastCall.result \in Seq({"7", ".", "x"})
        /\ lastCall.result = truncateCoordinate(args)

\* C32: is_empty() is true exactly for the Forecast with elevation "" and no
\* periods, and false for every fetched forecast with at least one period,
\* one whose elevation is 0 included.
C32_EmptyExactly ==
    lastCall.called => (lastCall.result <=> args = EmptyForecast)

\* the scenario of leaving now: there is a waypoint and an hour to scan, no
\* waypoint has fewer periods than there are waypoints, and waypoint i
\* (from 0) has a scored period at index i
LeaveNowValid ==
    /\ args.all_waypoint_periods # <<>>
    /\ args.hours_to_scan > 0
    /\ \A w \in 1..Len(args.all_waypoint_periods) :
          /\ Len(args.all_waypoint_periods[w]) >= Len(args.all_waypoint_periods)
          /\ args.all_waypoint_periods[w][w].ride_score # Absent

\* C33: scan_departure_window returns a plan exactly when the scenario of
\* leaving now (start_hour 0) is valid; it returns none when a waypoint's
\* period at index i is unscored or a waypoint has fewer periods than there
\* are waypoints, even if later departure hours are valid.
C33_PlanIffLeaveNow ==
    lastCall.called => (lastCall.result # <<>> <=> LeaveNowValid)

\* no plan was returned although a later departure hour of the scan is valid
C33_Witness ==
    /\ lastCall.called
    /\ lastCall.result = <<>>
    /\ ~LeaveNowValid
    /\ Len(args.all_waypoint_periods) = 2
    /\ \E h \in ValidHours : h > 0 /\ h + Len(args.all_waypoint_periods) <= MaxHours

\* C34: whenever an unexpired entry of the coordinates collection maps a
\* coordinate to a grid point, the gridpoints collection holds an unexpired
\* forecast-URL entry for that grid point.
C34_UrlCoverage ==
    \A d \in DOMAIN coordinates :
        ~is_expired(coordinates[d].expiresAt, now) =>
            LET g == create_gridpoint_doc_id(coordinates[d].gridId,
                                             str(coordinates[d].gridX),
                                             str(coordinates[d].gridY))
            IN  /\ g \in DOMAIN gridpoints
                /\ ~is_expired(gridpoints[g].expiresAt, now)

\* C35: a getForecast call that misses the cache and returns the empty
\* Forecast has written nothing to the forecasts collection, and every
\* document of the collection is one Forecast() can be built from without
\* raising, a fetched document with periods and no elevation included.
C35_ReturnedAgreesWithCached ==
    /\ lastForecast.called /\ ~lastForecast.hit
          /\ lastForecast.forecast = EmptyForecast => ~lastForecast.wrote
    /\ \A d \in DOMAIN forecasts : ~ForecastInitRaises(json_loads(forecasts[d].forecast))

\* the distinct (latitude, longitude) pairs of the request's list, truncated
NormalizedPairs ==
    {<<truncateCoordinate(coords[n].latitude), truncateCoordinate(coords[n].longitude)>> :
        n \in 1..Len(coords)}

\* C36: in one getWeather call the number of point lookups sent upstream is
\* at most the number of distinct truncated (latitude, longitude) pairs of
\* the list, whatever the lookups answer and whether the cache writes work.
C36_BoundedLookups == lookups <= Cardinality(NormalizedPairs)

\* the hour of a timestamp in absolute (UTC) time
UtcHour(ts) == UtcMinutes(ts) \div 60

\* what the same-hour fallback gives the period for the layer: the match of
\* a start time that parses and has no entry of its own in the layer
FallbackValue(start_time, data_map) ==
    IF start_time.ok /\ DictGet(data_map, start_time) = Absent
    THEN gridpoint_match_timestamp_value(start_time, data_map, build_hour_index(data_map))
    ELSE Absent

\* C37: when the same-hour fallback assigns a layer entry's value to a
\* period, the entry's timestamp and the period's startTime denote the same
\* hour in absolute (UTC) time, whatever UTC offsets the two are written in.
C37_SameAbsoluteHour ==
    lastMerge.called =>
        \A n \in 1..Len(lastMerge.before) : \A layer \in LayerNames :
            LET start_time == lastMerge.before[n].startTime
                data_map == lastMerge.layers[layer]
            IN  FallbackValue(start_time, data_map) # Absent =>
                    /\ lastMerge.after[n][FieldOf[layer]] = FallbackValue(start_time, data_map)
                    /\ \E m \in 1..Len(data_map) :
                          /\ data_map[m].ts.ok
                          /\ data_map[m].val = lastMerge.after[n][FieldOf[layer]]
                          /\ UtcHour(data_map[m].ts) = UtcHour(start_time)

\* C38: the matcher with the pre-built hour index and the linear-scan
\* matcher of getForecast return the same value or None for every start
\* time and layer, so merge_gridpoint_data and _merge_gridpoint_data give
\* the same periods.
C38_MatchersEquivalent ==
    lastMerge.called =>
        /\ \A n \in 1..Len(lastMerge.before) : \A layer \in LayerNames :
              gridpoint_match_timestamp_value(lastMerge.before[n].startTime,
                  lastMerge.layers[layer], build_hour_index(lastMerge.layers[layer]))
              = weather_match_timestamp_value(lastMerge.before[n].startTime,
                    lastMerge.layers[layer])
        /\ lastMerge.after = weather_merge_gridpoint_data(lastMerge.before, lastMerge.layers)

\* one merge met an entry that does not parse, took the first of two
\* entries of the hour for a period starting at 10:30, and gave a period
\* whose start time does not parse the value stored under that very string
C38_Witness ==
    /\ lastMerge.called
    /\ lastMerge.layers = SameHourLayers
    /\ Len(lastMerge.before) = 2
    /\ lastMerge.before[1].startTime = TS(10, 30, 0)
    /\ lastMerge.before[1].windGust = Absent
    /\ lastMerge.after[1].windGust = 20
    /\ lastMerge.before[2].startTime = BadTS
    /\ lastMerge.after[2].windGust = 35
    /\ lastMerge.after[2].apparent_temperature = Absent

\* the periods of the coordinate's forecast, by position, whose closed
\* window [startTime, endTime] holds the coordinate's eta
PeriodsHoldingEta(coordinate) ==
    {n \in 1..Len(coordinate.forecasts.periods) :
        /\ UtcMinutes(coordinate.forecasts.periods[n].startTime) <= coordinate.eta
        /\ coordinate.eta <= UtcMinutes(coordinate.forecasts.periods[n].endTime)}

\* C39: with ignoreEta false, filterWeatherData adds an entry for a
\* coordinate that has an eta only when a period's closed window holds the
\* eta, and the entry is the first such period in forecast order; a
\* coordinate whose eta lies in no period adds no entry.
C39_EtaPeriodSelection ==
    filtered.done /\ ~filtered.raised /\ ~filtered.ignoreEta =>
        \A n \in 1..Len(coords) :
            coords[n].eta # Absent =>
                LET hits == PeriodsHoldingEta(coords[n])
                IN  IF hits = {}
                    THEN filtered.entries[n] = <<>>
                    ELSE /\ Len(filtered.entries[n]) = 1
                         /\ filtered.entries[n][1].value =
                               <<coords[n].forecasts.periods[
                                     CHOOSE h \in hits : \A other \in hits : h <= other]>>

====
